---------------------------- MODULE Spec2Model ----------------------------
(***************************************************************************)
(* Model of crosshot: the capture cascade of takeScreenshot, the           *)
(* captureScreen wrapper and the getAvailableTools probe.                  *)
(*                                                                         *)
(* Strings that the code transforms character by character (the format     *)
(* option) are sequences of one-character strings.  A file path is a       *)
(* record [dir, base, ext]; a directory is the string path.join leaves.    *)
(* The external tools and the operating system are the environment: each   *)
(* completion of a child process chooses its exit status and what it wrote.*)
(***************************************************************************)
EXTENDS Integers, Sequences, FiniteSets, TLC

VARIABLES
    platform,        \* os.platform() of the host
    dirs,            \* directories that exist on disk
    disk,            \* function: path of an existing file -> its bytes
    pc,              \* per call: idle, running, resolved, rejected, crashed
    req,             \* per call: the locals of takeScreenshot
    invoked,         \* per call: indexes handed to exec, in order
    inflight,        \* exec calls whose callback has not fired: <<call, index>>
    settled,         \* per call: every resolve/reject issued, in order
    lastExit,        \* per call: index and error of the last exec callback,
                     \* and the paths its process wrote
    reads,           \* per call: outcomes of readFileSync(filepath)
    mkdirs,          \* per call: directories handed to mkdirSync
    console,         \* per call: the lines takeScreenshot wrote with console.log
                     \* and console.error, in order
    exitCode,        \* per call: exit code of its process when it is the CLI's,
                     \* -1 while the process lives
    mainSaid,        \* per call: the lines the main block of the CLI wrote with
                     \* console.log and console.error, in order
    probePc,         \* getAvailableTools: idle, probing, resolved
    probePending,    \* which-probes whose callback has not fired
    checkedTools,    \* getAvailableTools' counter
    availableTools,  \* getAvailableTools' list
    probeSettled,    \* every resolve issued by getAvailableTools, in order
    probeFailed      \* the tools whose which-probe ended with an error

vars == <<platform, dirs, disk, pc, req, invoked, inflight, settled, lastExit, reads, mkdirs,
          console, exitCode, mainSaid, probePc, probePending, checkedTools, availableTools,
          probeSettled, probeFailed>>

captureVars == <<pc, req, invoked, inflight, settled, lastExit, reads, mkdirs, console,
                 exitCode, mainSaid, dirs, disk>>
probeVars == <<probePc, probePending, checkedTools, availableTools, probeSettled, probeFailed>>

----------------------------------------------------------------------------
(* Bounds of the model *)

\* Date.now() takes the values 0..MaxClock
MaxClock == 1

\* the calls of takeScreenshot/captureScreen that Spec follows
Calls == {1}

----------------------------------------------------------------------------
(* Characters and String.prototype.toLowerCase *)

UpperChars == <<"A","B","C","D","E","F","G","H","I","J","K","L","M",
                "N","O","P","Q","R","S","T","U","V","W","X","Y","Z">>
LowerChars == <<"a","b","c","d","e","f","g","h","i","j","k","l","m",
                "n","o","p","q","r","s","t","u","v","w","x","y","z">>

toLowerCaseChar(ch) ==
    IF \E i \in 1..Len(UpperChars) : UpperChars[i] = ch
    THEN LowerChars[CHOOSE i \in 1..Len(UpperChars) : UpperChars[i] = ch]
    ELSE ch

toLowerCase(s) == [i \in 1..Len(s) |-> toLowerCaseChar(s[i])]

PNG  == <<"p","n","g">>
JPG  == <<"j","p","g">>
JPEG == <<"j","p","e","g">>
BMP  == <<"b","m","p">>
WEBP == <<"w","e","b","p">>

\* a format too many in the list
validFormatsWithTiff == <<PNG, JPG, JPEG, BMP, WEBP, <<"t","i","f","f">> >>

\* const validFormats = ['png', 'jpg', 'jpeg', 'bmp', 'webp']
validFormats == <<PNG, JPG, JPEG, BMP, WEBP>>

includes(list, x) == \E i \in 1..Len(list) : list[i] = x

\* the extension taken from the format as it is
fileExtensionAsIs(normalizedFormat) == normalizedFormat

\* normalizedFormat === 'jpeg' ? 'jpg' : normalizedFormat
fileExtension(normalizedFormat) ==
    IF normalizedFormat = JPEG THEN JPG ELSE normalizedFormat

\* the usual slip for jpg
getMimeTypeJpg(format) ==
    CASE format = PNG  -> "image/png"
      [] format = JPG  -> "image/jpg"
      [] format = JPEG -> "image/jpeg"
      [] format = WEBP -> "image/webp"
      [] format = BMP  -> "image/bmp"
      [] OTHER         -> "image/png"

getMimeType(format) ==
    CASE format = PNG  -> "image/png"
      [] format = JPG  -> "image/jpeg"
      [] format = JPEG -> "image/jpeg"
      [] format = WEBP -> "image/webp"
      [] format = BMP  -> "image/bmp"
      [] OTHER         -> "image/png"

----------------------------------------------------------------------------
(* Paths: path.join and path.dirname on the directories of the model *)

\* __dirname, the directory of the script: it exists
ModuleDir == "__dirname"

\* process.cwd(): it exists
Cwd == "/work"

\* the directories of the model that are absolute paths
isAbsolute(d) == d \in {ModuleDir, Cwd}

\* the segments of a normalised directory
segments(d) ==
    CASE d = Cwd       -> <<"work">>
      [] d = ModuleDir -> <<"opt", "crosshot">>
      [] OTHER         -> <<d>>

\* the destinationDir / outputDir arguments the model passes
DirArgs == {"./out/", "shots"}

\* path.join(dir, file) normalises the directory part: "./out/" -> "out"
normalizeDir(d) ==
    CASE d = "./out/" -> "out"
      [] OTHER        -> d

join(destinationDir, name) ==
    [dir |-> normalizeDir(destinationDir), base |-> name.base, ext |-> name.ext]

dirname(p) == p.dir

\* join(process.cwd(), filepath): path.join puts all its arguments one after
\* the other, whether or not a later one starts at the root
absolutePathOf(filepath) ==
    [segments |-> segments(Cwd) \o segments(filepath.dir),
     base |-> filepath.base, ext |-> filepath.ext]

\* customName ? `${customName}.${ext}` : `screenshot-${Date.now()}.${ext}`
filenameOf(customName, now, ext) ==
    IF customName # <<>>
    THEN [base |-> customName, ext |-> ext]
    ELSE [base |-> <<"screenshot-", now>>, ext |-> ext]

\* filepath.replace(new RegExp(`\\.${fileExtension}$`), '.png')
fallbackPathOf(filepath, ext) ==
    IF filepath.ext = ext THEN [filepath EXCEPT !.ext = PNG] ELSE filepath

----------------------------------------------------------------------------
(* The candidate commands.  A command is [argv, path]: the words of the    *)
(* command line before the quoted path, and the path the tool is given.    *)
(* target is the file the tool writes when it works.                       *)

\* a lower-case format as one word of a command line
word(format) ==
    CASE format = PNG  -> "png"
      [] format = JPG  -> "jpg"
      [] format = JPEG -> "jpeg"
      [] format = BMP  -> "bmp"
      [] format = WEBP -> "webp"

\* a formatMap with an encoder for webp
formatMapWebp(normalizedFormat) ==
    CASE normalizedFormat = PNG  -> "Png"
      [] normalizedFormat = JPG  -> "Jpeg"
      [] normalizedFormat = JPEG -> "Jpeg"
      [] normalizedFormat = BMP  -> "Bmp"
      [] normalizedFormat = WEBP -> "Webp"
      [] OTHER                   -> "undefined"

\* formatMap of the win32 branch
formatMap(normalizedFormat) ==
    CASE normalizedFormat = PNG  -> "Png"
      [] normalizedFormat = JPG  -> "Jpeg"
      [] normalizedFormat = JPEG -> "Jpeg"
      [] normalizedFormat = BMP  -> "Bmp"
      [] normalizedFormat = WEBP -> "Png"
      [] OTHER                   -> "undefined"

\* grim pushed for bmp too
grimFormatsWithBmp == <<PNG, JPG, JPEG, WEBP, BMP>>

macFormats == <<PNG, JPG, JPEG>>

\* formats for which grim is pushed
grimFormats == <<PNG, JPG, JPEG, WEBP>>

\* flameshot is given dirname(filepath) and names the file itself
flameshotFile(dir) == [dir |-> dir, base |-> <<"flameshot">>, ext |-> PNG]

\* the win32 list without its second entry
win32CommandsShort(normalizedFormat, filepath) ==
    << [argv |-> <<"powershell", "-Command", "Save", formatMap(normalizedFormat)>>,
        path |-> filepath, target |-> filepath],
       [argv |-> <<"screencapture">>,
        path |-> filepath, target |-> filepath] >>

win32Commands(normalizedFormat, filepath) ==
    << [argv |-> <<"powershell", "-Command", "Save", formatMap(normalizedFormat)>>,
        path |-> filepath, target |-> filepath],
       [argv |-> <<"nircmd", "savescreenshot">>,
        path |-> filepath, target |-> filepath],
       [argv |-> <<"screencapture">>,
        path |-> filepath, target |-> filepath] >>

darwinCommands(normalizedFormat, filepath) ==
    IF includes(macFormats, normalizedFormat)
    THEN LET formatFlag == IF normalizedFormat = PNG THEN <<>> ELSE <<"-t", "jpg">>
         IN << [argv |-> <<"screencapture">> \o formatFlag,
                path |-> filepath, target |-> filepath],
               [argv |-> <<"screencapture", "-x">> \o formatFlag,
                path |-> filepath, target |-> filepath] >>
    ELSE LET fallbackPath == fallbackPathOf(filepath, fileExtension(normalizedFormat))
         IN << [argv |-> <<"screencapture">>,
                path |-> fallbackPath, target |-> fallbackPath],
               [argv |-> <<"screencapture", "-x">>,
                path |-> fallbackPath, target |-> fallbackPath] >>

linuxTail(filepath) ==
    << [argv |-> <<"gnome-screenshot", "-f">>,
        path |-> filepath, target |-> filepath],
       [argv |-> <<"spectacle", "-b", "-n", "-o">>,
        path |-> filepath, target |-> filepath],
       [argv |-> <<"wayshot", "-f">>,
        path |-> filepath, target |-> filepath],
       [argv |-> <<"flameshot", "full", "-p">>,
        path |-> [dir |-> dirname(filepath), base |-> <<>>, ext |-> <<>>],
        target |-> flameshotFile(dirname(filepath))],
       [argv |-> <<"scrot">>,
        path |-> filepath, target |-> filepath],
       [argv |-> <<"maim">>,
        path |-> filepath, target |-> filepath] >>

linuxCommands(normalizedFormat, filepath) ==
    (IF includes(grimFormats, normalizedFormat)
     THEN LET grimFormat == IF normalizedFormat = JPEG THEN JPG ELSE normalizedFormat
          IN << [argv |-> <<"grim", "-t", word(grimFormat)>>,
                 path |-> filepath, target |-> filepath] >>
     ELSE <<>>)
    \o linuxTail(filepath)

\* the if / else if / else on currentPlatform
buildCommands(currentPlatform, normalizedFormat, filepath) ==
    IF currentPlatform = "win32" THEN win32Commands(normalizedFormat, filepath)
    ELSE IF currentPlatform = "darwin" THEN darwinCommands(normalizedFormat, filepath)
    ELSE linuxCommands(normalizedFormat, filepath)

\* command.split(' ')[0]
toolNameOf(command) == command.argv[1]

\* commands.map(cmd => cmd.split(' ')[0])
toolNames(commands) == [i \in 1..Len(commands) |-> toolNameOf(commands[i])]

getSuggestions(currentPlatform) ==
    IF currentPlatform = "win32"
    THEN <<"PowerShell (native to Windows)",
           "NirCmd from https://www.nirsoft.net/utils/nircmd.html",
           "npm install screenshot-desktop">>
    ELSE IF currentPlatform = "darwin"
    THEN <<"screencapture (native to macOS)",
           "Check screen recording permissions in System Preferences">>
    ELSE <<"grim (recommended for Wayland)",
           "gnome-screenshot (for GNOME environments)",
           "spectacle (for KDE Plasma)",
           "wayshot (alternative for Wayland)",
           "flameshot (GUI with extra features)",
           "scrot (for X11 systems)",
           "maim (alternative for X11)">>

----------------------------------------------------------------------------
(* Files: fs.existsSync, fs.statSync, fs.readFileSync and base64 *)

existsSync(dsk, p) == p \in DOMAIN dsk

\* statSync(filepath) throws ENOENT for a file that is not there; nothing
\* catches it in the callback of exec
statThrows(dsk, p) == p \notin DOMAIN dsk

\* statSync(filepath).size
statSize(dsk, p) == Len(dsk[p])

Base64Alphabet ==
    <<"A","B","C","D","E","F","G","H","I","J","K","L","M",
      "N","O","P","Q","R","S","T","U","V","W","X","Y","Z",
      "a","b","c","d","e","f","g","h","i","j","k","l","m",
      "n","o","p","q","r","s","t","u","v","w","x","y","z",
      "0","1","2","3","4","5","6","7","8","9","+","/">>

sextet(n) == Base64Alphabet[n + 1]

RECURSIVE toBase64Truncating(_)
\* an encoder that drops the bytes after the last full group of three
toBase64Truncating(bytes) ==
    IF Len(bytes) < 3 THEN <<>>
    ELSE << sextet(bytes[1] \div 4),
            sextet((bytes[1] % 4) * 16 + bytes[2] \div 16),
            sextet((bytes[2] % 16) * 4 + bytes[3] \div 64),
            sextet(bytes[3] % 64) >>
         \o toBase64Truncating(SubSeq(bytes, 4, Len(bytes)))

RECURSIVE toBase64(_)
\* Buffer.prototype.toString('base64')
toBase64(bytes) ==
    IF Len(bytes) = 0 THEN <<>>
    ELSE IF Len(bytes) = 1
    THEN << sextet(bytes[1] \div 4), sextet((bytes[1] % 4) * 16), "=", "=" >>
    ELSE IF Len(bytes) = 2
    THEN << sextet(bytes[1] \div 4),
            sextet((bytes[1] % 4) * 16 + bytes[2] \div 16),
            sextet((bytes[2] % 16) * 4), "=" >>
    ELSE << sextet(bytes[1] \div 4),
            sextet((bytes[1] % 4) * 16 + bytes[2] \div 16),
            sextet((bytes[2] % 16) * 4 + bytes[3] \div 64),
            sextet(bytes[3] % 64) >>
         \o toBase64(SubSeq(bytes, 4, Len(bytes)))

----------------------------------------------------------------------------
(* The environment's inputs *)

Platforms == {"win32", "darwin", "linux", "freebsd"}

\* values of the format option
FormatInputs ==
    { PNG, <<"P","N","G">>, JPG, <<"J","P","G">>, <<"J","p","e","g">>, JPEG,
      BMP, WEBP, <<"t","i","f","f">>, <<"T","I","F","F">> }

\* customName: null, or a name the caller reuses
Null == <<>>
CustomNames == {Null, <<"shot">>}

\* what a capture tool can leave in its file
Images == { <<>>, <<137, 80, 78, 71>> }

\* a file left by an earlier run
StaleImage == <<66, 77>>
StaleFiles == { [dir |-> "out", base |-> <<"shot">>, ext |-> PNG],
                [dir |-> "out", base |-> <<"shot">>, ext |-> BMP] }

\* quality: 100, the default of takeScreenshot and captureScreen
DefaultQuality == 100

NoReq == [via |-> "none", entered |-> FALSE]
NoExit == [index |-> -1, error |-> FALSE, wrote |-> {}]

\* the state before calls cs are made; the directories of present always exist
InitFor(cs, present) ==
    /\ platform \in Platforms
    /\ dirs \in { present, present \cup {"out"} }
    /\ \E S \in SUBSET StaleFiles :
         /\ \A p \in S : p.dir \in dirs
         /\ disk = [p \in S |-> StaleImage]
    /\ pc = [c \in cs |-> "idle"]
    /\ req = [c \in cs |-> NoReq]
    /\ invoked = [c \in cs |-> <<>>]
    /\ inflight = {}
    /\ settled = [c \in cs |-> <<>>]
    /\ lastExit = [c \in cs |-> NoExit]
    /\ reads = [c \in cs |-> <<>>]
    /\ mkdirs = [c \in cs |-> <<>>]
    /\ console = [c \in cs |-> <<>>]
    /\ exitCode = [c \in cs |-> -1]
    /\ mainSaid = [c \in cs |-> <<>>]
    /\ probePc = "idle"
    /\ probePending = {}
    /\ checkedTools = 0
    /\ availableTools = <<>>
    /\ probeSettled = <<>>
    /\ probeFailed = {}

Init == InitFor(Calls, {})

----------------------------------------------------------------------------
(* takeScreenshot *)

\* the format taken as written
normalizeFormatAsIs(format) == format

\* const normalizedFormat = config.format.toLowerCase()
normalizeFormat(format) == toLowerCase(format)

\* values of options.format that are not strings: undefined and the number 42,
\* each written as a one-element tuple that is no sequence of characters
Undefined == <<"undefined">>
Number42 == <<"42">>
NonStrings == {Undefined, Number42}

\* typeof value === 'string'
isString(value) == value \notin NonStrings

\* what config.format.toLowerCase() throws when config.format is not a string:
\* undefined has no properties, a number has no toLowerCase
typeError(format) ==
    [name |-> "TypeError",
     message |-> IF format = Undefined
                 THEN "Cannot read properties of undefined (reading 'toLowerCase')"
                 ELSE "config.format.toLowerCase is not a function"]

\* the reject of an unsupported format
unsupportedFormatError(format) ==
    [success |-> FALSE,
     error |-> <<"Unsupported format: ", format, ". Supported formats: ", validFormats>>,
     platform |-> platform,
     suggestions |-> << <<"Use one of these formats: ", validFormats>> >>]

\* the last attempted tool left out of the list
noToolsErrorShort(r) ==
    [success |-> FALSE,
     error |-> "No screenshot tools found!",
     platform |-> r.currentPlatform,
     availableTools |-> SubSeq(toolNames(r.commands), 1, Len(r.commands) - 1),
     suggestions |-> getSuggestions(r.currentPlatform)]

\* the reject of tryCommand when index >= commands.length
noToolsError(r) ==
    [success |-> FALSE,
     error |-> "No screenshot tools found!",
     platform |-> r.currentPlatform,
     availableTools |-> toolNames(r.commands),
     suggestions |-> getSuggestions(r.currentPlatform)]

\* a promise keeps its first settlement; pc follows it
settle(c, kind, value) ==
    /\ settled' = [settled EXCEPT ![c] = Append(@, [kind |-> kind, value |-> value])]
    /\ pc' = [pc EXCEPT ![c] =
                IF settled[c] # <<>> THEN @
                ELSE IF kind = "resolve" THEN "resolved" ELSE "rejected"]

\* the next candidate started along with this one
execOfEager(index, commands) == {i \in {index, index + 1} : i < Len(commands)}

\* the indexes tryCommand(index) hands to exec
execOf(index, commands) == {index}

\* the last candidate never tried
exhaustedEarly(index, commands) == index >= Len(commands) - 1

\* if (index >= commands.length)
exhausted(index, commands) == index >= Len(commands)

\* a logError that does not look at silent
logErrorLoud(silent, verbose, lines) == [i \in 1..Len(lines) |-> <<"error", lines[i]>>]

\* const log = (...args) => !config.silent && config.verbose && console.log(...args)
log(silent, verbose, lines) ==
    IF ~silent /\ verbose THEN [i \in 1..Len(lines) |-> <<"log", lines[i]>>] ELSE <<>>

\* const logError = (...args) => !config.silent && console.error(...args)
logError(silent, verbose, lines) ==
    IF ~silent THEN [i \in 1..Len(lines) |-> <<"error", lines[i]>>] ELSE <<>>

\* the lines of the three platform branches of the exhausted case
installHints(currentPlatform) ==
    IF currentPlatform = "win32"
    THEN <<"For Windows:", "PowerShell already tried", "Install NirCmd", "Or use npm">>
    ELSE IF currentPlatform = "darwin"
    THEN <<"For macOS:", "screencapture is native to macOS",
           "Check screen recording permissions">>
    ELSE <<"For Linux systems, install one of these tools:", "grim", "gnome-screenshot",
           "spectacle", "wayshot", "flameshot", "scrot", "maim",
           "Install using your system package manager">>

\* what console gets: the lines said so far in this step, then these
say(c, said) == console' = [console EXCEPT ![c] = @ \o said]

\* function tryCommand(index); fl is the set of running processes at the call
tryCommand(c, r, index, fl, said) ==
    IF exhausted(index, r.commands)
    THEN /\ say(c, said \o logError(r.silent, r.verbose, <<"ERROR: No screenshot tools found!">>)
                     \o log(r.silent, r.verbose, installHints(r.currentPlatform)))
         /\ settle(c, "reject", noToolsError(r))
         /\ inflight' = fl
         /\ UNCHANGED invoked
    ELSE /\ say(c, said)
         /\ invoked' = [invoked EXCEPT ![c] = Append(@, index)]
         /\ inflight' = fl \cup {<<c, i>> : i \in execOf(index, r.commands)}
         /\ pc' = [pc EXCEPT ![c] = IF @ = "idle" THEN "running" ELSE @]
         /\ UNCHANGED settled

\* the body of the promise of takeScreenshot, up to the first exec
takeScreenshot(c, via, createDir, destinationDir, customName, format, quality, returnBase64, silent, verbose, now) ==
    LET normalizedFormat == normalizeFormat(format)
    IN  IF ~isString(format)
        \* the exception leaves the executor of new Promise, which rejects with it
        THEN /\ req' = [req EXCEPT ![c] =
                          [via |-> via, entered |-> TRUE, createDir |-> createDir,
                           destinationDir |-> destinationDir, format |-> format,
                           silent |-> silent, verbose |-> verbose]]
             /\ settle(c, "reject", typeError(format))
             /\ UNCHANGED <<invoked, inflight, console>>
        ELSE IF ~includes(validFormats, normalizedFormat)
        THEN /\ req' = [req EXCEPT ![c] =
                          [via |-> via, entered |-> TRUE, createDir |-> createDir,
                           destinationDir |-> destinationDir, format |-> format,
                           silent |-> silent, verbose |-> verbose]]
             /\ settle(c, "reject", unsupportedFormatError(format))
             /\ UNCHANGED <<invoked, inflight, console>>
        ELSE LET ext == fileExtension(normalizedFormat)
                 filename == filenameOf(customName, now, ext)
                 filepath == join(destinationDir, filename)
                 r == [via |-> via,
                       entered |-> TRUE,
                       createDir |-> createDir,
                       destinationDir |-> destinationDir,
                       format |-> format,
                       quality |-> quality,
                       returnBase64 |-> returnBase64,
                       silent |-> silent,
                       verbose |-> verbose,
                       normalizedFormat |-> normalizedFormat,
                       filename |-> filename,
                       filepath |-> filepath,
                       currentPlatform |-> platform,
                       commands |-> buildCommands(platform, normalizedFormat, filepath)]
             IN  /\ req' = [req EXCEPT ![c] = r]
                 /\ tryCommand(c, r, 0, inflight,
                               log(silent, verbose, <<"Platform detected", "Taking screenshot...">>))

\* a direct call of the library function
TakeScreenshot(c) ==
    /\ pc[c] = "idle"
    /\ \E destinationDir \in DirArgs, customName \in CustomNames,
          format \in FormatInputs, returnBase64 \in BOOLEAN, now \in 0..MaxClock :
         takeScreenshot(c, "takeScreenshot", FALSE, destinationDir, customName,
                        format, DefaultQuality, returnBase64, FALSE, FALSE, now)
    /\ UNCHANGED <<platform, dirs, disk, lastExit, reads, mkdirs, exitCode, mainSaid, probeVars>>

\* .then and .catch of the CLI both ending with 0
thenCatchZero(kind) == 0

\* the CLI's .then(result => ...) returns, and the process ends with 0;
\* its .catch(error => ...) ends with process.exit(1)
thenCatch(kind) == IF kind = "resolve" THEN 0 ELSE 1

\* what the CLI's .then and .catch write once the promise of call c has settled
\* in this step (options.verbose is false): the success mark and result.filepath,
\* or ERROR: with error.error
thenCatchSaid(c, via) ==
    IF via # "cli" \/ pc'[c] = "crashed" \/ settled'[c] = <<>> THEN <<>>
    ELSE IF settled'[c][1].kind = "resolve"
    THEN << <<"log", "Success">>, <<"log", settled'[c][1].value.filepath>> >>
    ELSE << <<"error", <<"ERROR:", settled'[c][1].value.error>> >> >>

\* the exit code of call c's process after a step: a library call has none,
\* the CLI ends when its promise settles, or with 1 on an uncaught exception
processExit(c, via, code) ==
    IF via # "cli" THEN code
    ELSE IF pc'[c] = "crashed" THEN 1
    ELSE IF settled'[c] = <<>> THEN code
    ELSE thenCatch(settled'[c][1].kind)

\* the check left out
fileCreatedUnchecked(dsk, r, command) == TRUE

\* the check negated
fileCreatedInverted(dsk, r, command) == ~existsSync(dsk, r.filepath)

\* if (existsSync(filepath)) in the callback of exec
fileCreated(dsk, r, command) == existsSync(dsk, r.filepath)

\* the base64 fields set, empty, when the file could not be read
resultOfEmptyData(dsk, r, toolName, readThrows) ==
    LET result ==
            [success |-> TRUE,
             filename |-> r.filename,
             filepath |-> r.filepath,
             absolutePath |-> absolutePathOf(r.filepath),
             directory |-> r.destinationDir,
             size |-> statSize(dsk, r.filepath),
             tool |-> toolName,
             platform |-> r.currentPlatform,
             format |-> r.normalizedFormat]
    IN  IF r.returnBase64
        THEN LET base64Data == IF readThrows THEN <<>> ELSE toBase64(dsk[r.filepath])
                 mimeType == getMimeType(r.normalizedFormat)
             IN  result @@ [base64 |-> <<"data:", mimeType, ";base64,", base64Data>>,
                            base64Raw |-> base64Data]
        ELSE result

\* the result object, with the base64 fields when they were produced
resultOf(dsk, r, toolName, readThrows) ==
    LET result ==
            [success |-> TRUE,
             filename |-> r.filename,
             filepath |-> r.filepath,
             absolutePath |-> absolutePathOf(r.filepath),
             directory |-> r.destinationDir,
             size |-> statSize(dsk, r.filepath),
             tool |-> toolName,
             platform |-> r.currentPlatform,
             format |-> r.normalizedFormat]
    IN  IF r.returnBase64 /\ ~readThrows
        THEN LET base64Data == toBase64(dsk[r.filepath])
                 mimeType == getMimeType(r.normalizedFormat)
             IN  result @@ [base64 |-> <<"data:", mimeType, ";base64,", base64Data>>,
                            base64Raw |-> base64Data]
        ELSE result

\* the paths a process that writes can write: its directory must exist
writable(command) ==
    IF dirname(command.target) \in dirs THEN {command.target} ELSE {}

\* what the process of a command leaves on disk when it writes data
written(command, data) ==
    [p \in writable(command) |-> data] @@ disk

\* exec(command, (error, stdout, stderr) => { ... })
execCallback(c, index, error, dsk, later, readThrows) ==
    LET r == req[c]
        command == r.commands[index + 1]
        toolName == toolNameOf(command)
        fl == inflight \ {<<c, index>>}
        saved == log(r.silent, r.verbose, <<"SUCCESS: Screenshot captured", "File saved at: ">>)
    IN  IF error
        THEN /\ tryCommand(c, r, index + 1, fl,
                           log(r.silent, r.verbose, <<"WARNING: not available, trying next...">>)
                           \o (IF r.verbose
                               THEN log(r.silent, r.verbose, <<"Command failed: ", "Error: ">>)
                               ELSE <<>>))
             /\ UNCHANGED reads
        ELSE IF fileCreated(dsk, r, command)
        THEN IF statThrows(later, r.filepath)
             THEN /\ say(c, saved)
                  /\ pc' = [pc EXCEPT ![c] = "crashed"]
                  /\ inflight' = fl
                  /\ UNCHANGED <<invoked, settled, reads>>
             ELSE /\ say(c, saved \o log(r.silent, r.verbose, <<"Size: ">>)
                             \o (IF ~r.returnBase64 THEN <<>>
                                 ELSE IF readThrows
                                 THEN log(r.silent, r.verbose,
                                          <<"Warning: Could not generate base64">>)
                                 ELSE log(r.silent, r.verbose, <<"Base64 data generated">>)))
                  /\ settle(c, "resolve", resultOf(later, r, toolName, readThrows))
                  /\ reads' = [reads EXCEPT ![c] =
                                 IF r.returnBase64
                                 THEN Append(@, [path |-> r.filepath, threw |-> readThrows])
                                 ELSE @]
                  /\ inflight' = fl
                  /\ UNCHANGED invoked
        ELSE /\ tryCommand(c, r, index + 1, fl,
                           log(r.silent, r.verbose, <<"ERROR: Failed to save, trying next...">>))
             /\ UNCHANGED reads

\* the disk after another process has removed the file at p
unlinked(dsk, p) == [q \in DOMAIN dsk \ {p} |-> dsk[q]]

\* a child process ends: the tool has or has not written, exits with or without
\* error; with races, the file found by existsSync may be gone at statSync
ExecEnds(c, races) ==
    \E index \in {pr[2] : pr \in {q \in inflight : q[1] = c}} :
      /\ \E error \in BOOLEAN, wrote \in BOOLEAN :
         \E data \in IF wrote THEN Images ELSE {<<>>},
            readThrows \in IF req[c].returnBase64 THEN BOOLEAN ELSE {FALSE} :
           LET command == req[c].commands[index + 1]
               dsk == IF wrote THEN written(command, data) ELSE disk
           IN  \E gone \in IF ~error /\ existsSync(dsk, req[c].filepath)
                            THEN races ELSE {FALSE} :
                 LET later == IF gone THEN unlinked(dsk, req[c].filepath) ELSE dsk
                 IN  /\ disk' = later
                     /\ lastExit' = [lastExit EXCEPT ![c] =
                                        [index |-> index, error |-> error,
                                         wrote |-> IF wrote THEN writable(command) ELSE {}]]
                     /\ execCallback(c, index, error, dsk, later, readThrows)
      /\ exitCode' = [exitCode EXCEPT ![c] = processExit(c, req[c].via, @)]
      /\ mainSaid' = [mainSaid EXCEPT ![c] = @ \o thenCatchSaid(c, req[c].via)]
      /\ UNCHANGED <<platform, dirs, req, mkdirs, probeVars>>

\* the callback with nothing else touching the destination file
ExecCallback(c) == ExecEnds(c, {FALSE})

\* the callback while other processes may remove the destination file
ExecCallbackRacing(c) == ExecEnds(c, BOOLEAN)

----------------------------------------------------------------------------
(* captureScreen *)

\* the object thrown when the directory is missing and createDir is false
directoryMissingError(outputDir) ==
    [success |-> FALSE,
     error |-> <<"Directory does not exist: ", outputDir>>,
     platform |-> platform,
     suggestions |-> <<"Set createDir: true to automatically create directories",
                       "Create the directory manually before taking screenshot">>]

\* what mkdirSync throws
mkdirError(outputDir) == [code |-> "EACCES", path |-> outputDir]

\* the branches of the directory check never taken
mustCreateNever(outputDir, createDir) == FALSE
mustThrowNever(outputDir, createDir) == FALSE

\* if (!existsSync(outputDir)) { if (createDir) mkdirSync ... else throw ... }
mustCreate(outputDir, createDir) == normalizeDir(outputDir) \notin dirs /\ createDir
mustThrow(outputDir, createDir) == normalizeDir(outputDir) \notin dirs /\ ~createDir

\* export async function captureScreen(options = {})
captureScreen(c, outputDir, filename, createDir, format, quality, returnBase64, silent, verbose, now, mkdirThrows) ==
    IF mustThrow(outputDir, createDir)
    THEN /\ req' = [req EXCEPT ![c] =
                      [via |-> "captureScreen", entered |-> FALSE,
                       createDir |-> createDir,
                       destinationDir |-> outputDir, format |-> format]]
         /\ settle(c, "reject", directoryMissingError(outputDir))
         /\ UNCHANGED <<dirs, mkdirs, invoked, inflight, console>>
    ELSE IF mustCreate(outputDir, createDir)
    THEN /\ mkdirs' = [mkdirs EXCEPT ![c] = Append(@, outputDir)]
         /\ IF mkdirThrows
            THEN /\ req' = [req EXCEPT ![c] =
                              [via |-> "captureScreen", entered |-> FALSE,
                               createDir |-> createDir,
                               destinationDir |-> outputDir, format |-> format]]
                 /\ settle(c, "reject", mkdirError(outputDir))
                 /\ UNCHANGED <<dirs, invoked, inflight, console>>
            ELSE /\ dirs' = dirs \cup {normalizeDir(outputDir)}
                 /\ takeScreenshot(c, "captureScreen", createDir, outputDir, filename,
                                   format, quality, returnBase64, silent, verbose, now)
    ELSE /\ takeScreenshot(c, "captureScreen", createDir, outputDir, filename,
                           format, quality, returnBase64, silent, verbose, now)
         /\ UNCHANGED <<dirs, mkdirs>>

CaptureScreen(c) ==
    /\ pc[c] = "idle"
    /\ \E outputDir \in DirArgs, filename \in CustomNames, createDir \in BOOLEAN,
          format \in FormatInputs, returnBase64 \in BOOLEAN, now \in 0..MaxClock,
          mkdirThrows \in BOOLEAN :
         captureScreen(c, outputDir, filename, createDir, format, DefaultQuality,
                       returnBase64, TRUE, FALSE, now, mkdirThrows)
    /\ UNCHANGED <<platform, disk, lastExit, reads, exitCode, mainSaid, probeVars>>

----------------------------------------------------------------------------
(* getAvailableTools *)

\* the commands array of getAvailableTools
probeCommands(currentPlatform) ==
    IF currentPlatform = "win32" THEN <<"powershell", "nircmd", "screencapture">>
    ELSE IF currentPlatform = "darwin" THEN <<"screencapture">>
    ELSE <<"grim", "gnome-screenshot", "spectacle", "wayshot", "flameshot",
           "scrot", "maim">>

\* the tools of a forEach over commands
elements(list) == {list[i] : i \in 1..Len(list)}

\* commands.forEach(tool => exec(`which ${tool}`, ...))
GetAvailableTools ==
    /\ probePc = "idle"
    /\ probePc' = "probing"
    /\ probePending' = elements(probeCommands(platform))
    /\ UNCHANGED <<checkedTools, availableTools, probeSettled, probeFailed>>
    /\ UNCHANGED <<platform, captureVars>>

\* resolving at the first probe that ends
anyChecked(checked, commands) == checked >= 1

\* if (checkedTools === commands.length), read after checkedTools++
allChecked(checked, commands) == checked = Len(commands)

\* the two counts swapped
probeResultCounted(currentPlatform, commands, available) ==
    [platform |-> currentPlatform,
     available |-> available,
     total |-> Len(available),
     hasTools |-> Len(commands) > 0]

\* the object getAvailableTools resolves with
probeResult(currentPlatform, commands, available) ==
    [platform |-> currentPlatform,
     available |-> available,
     total |-> Len(commands),
     hasTools |-> Len(available) > 0]

\* the callback of one `which ${tool}`
probeCallback(tool, error) ==
    LET commands == probeCommands(platform)
        checked == checkedTools + 1
        available == IF ~error THEN Append(availableTools, tool) ELSE availableTools
    IN  /\ checkedTools' = checked
        /\ availableTools' = available
        /\ probeFailed' = IF error THEN probeFailed \cup {tool} ELSE probeFailed
        /\ IF allChecked(checked, commands)
           THEN /\ probeSettled' = Append(probeSettled,
                                          probeResult(platform, commands, available))
                /\ probePc' = "resolved"
           ELSE UNCHANGED <<probeSettled, probePc>>

ProbeCallback ==
    /\ \E tool \in probePending, error \in BOOLEAN :
         /\ probePending' = probePending \ {tool}
         /\ probeCallback(tool, error)
    /\ UNCHANGED <<platform, captureVars>>

----------------------------------------------------------------------------
(* The command line: parseArguments and the main block *)

\* values of -o=: none (the empty string is as falsy as undefined), or a path
OutputArgs == {""} \cup DirArgs

\* values of -f=: none, or a format as typed
FormatArgs == {<<>>, PNG, <<"J","P","G">>, WEBP, BMP, <<"t","i","f","f">>}

\* values of -q= after parseInt: 0 for none, "0" or a non-number, or a number
QualityArgs == {0, 85}

\* parseInt(arg.split('=')[1]) || 100
parseQuality(n) == IF n = 0 THEN 100 ELSE n

\* arg.startsWith(prefix), on arguments written as sequences of characters
startsWith(arg, prefix) ==
    Len(arg) >= Len(prefix) /\ SubSeq(arg, 1, Len(prefix)) = prefix

\* what is typed to ask for the help: nothing, -h or --help
HelpArgs == {<<>>, <<"-","h">>, <<"-","-","h","e","l","p">>}

\* what is typed to ask for the version: nothing, -v or --version
VersionArgs == {<<>>, <<"-","v">>, <<"-","-","v","e","r","s","i","o","n">>}

\* the last three branches of the else-if chain of args.forEach, for an argument
\* that is none of --name=, -n=, -o=, --output=, -f=, --format=, -q=, --quality=
flagOf(arg) ==
    IF startsWith(arg, <<"-","-","h","e","l","p">>) \/ startsWith(arg, <<"-","h">>)
    THEN "help"
    ELSE IF startsWith(arg, <<"-","-","v","e","r","b","o","s","e">>)
    THEN "verbose"
    ELSE IF startsWith(arg, <<"-","-","v","e","r","s","i","o","n">>) \/ arg = <<"-","v">>
    THEN "version"
    ELSE "none"

\* function parseArguments(); help and version are the two flags as typed
parseArguments(help, version, output, name, format, quality) ==
    [help |-> \E arg \in {help, version} \ {<<>>} : flagOf(arg) = "help",
     version |-> \E arg \in {help, version} \ {<<>>} : flagOf(arg) = "version",
     output |-> output,
     name |-> name,
     format |-> toLowerCase(format),
     quality |-> parseQuality(quality)]

\* function showHelp(): the title and the headings of its sections
showHelp ==
    << <<"log", "Crosshot - Cross-Platform Screenshot Utility">>, <<"log", "Usage:">>,
       <<"log", "Options:">>, <<"log", "Examples:">>, <<"log", "Supported formats">> >>

\* function showVersion()
showVersion ==
    << <<"log", "Crosshot">>, <<"log", "Version: ">>, <<"log", "Platform: ">>,
       <<"log", "Repository: ">>, <<"log", "License: MIT">> >>

\* the version looked at before the help
mainBranchVersionFirst(options) ==
    IF options.version THEN "version" ELSE IF options.help THEN "help" ELSE "capture"

\* the two ifs at the head of the main block: help, then version, then the capture
mainBranch(options) ==
    IF options.help THEN "help" ELSE IF options.version THEN "version" ELSE "capture"

\* process.exit(code) before any promise is made, after the lines said
exit(c, options, code, said) ==
    /\ req' = [req EXCEPT ![c] = [via |-> "cli", entered |-> FALSE, options |-> options]]
    /\ pc' = [pc EXCEPT ![c] = "exited"]
    /\ exitCode' = [exitCode EXCEPT ![c] = code]
    /\ mainSaid' = [mainSaid EXCEPT ![c] = @ \o said]
    /\ UNCHANGED <<invoked, inflight, settled, console>>

\* the block under if (import.meta.url === `file://${process.argv[1]}`)
main(c, options, now, mkdirThrows) ==
    IF mainBranch(options) = "help"
    THEN exit(c, options, 0, showHelp) /\ UNCHANGED <<dirs, mkdirs>>
    ELSE IF mainBranch(options) = "version"
    THEN exit(c, options, 0, showVersion) /\ UNCHANGED <<dirs, mkdirs>>
    ELSE LET outputDir == IF options.output # "" THEN options.output ELSE ModuleDir
             format == IF options.format # <<>> THEN options.format ELSE PNG
             quality == IF options.quality # 0 THEN options.quality ELSE 100
             capture ==
                 \* silent: false; --verbose is not among the arguments drawn
                 /\ takeScreenshot(c, "cli", TRUE, outputDir, options.name, format,
                                   quality, FALSE, FALSE, FALSE, now)
                 /\ exitCode' = [exitCode EXCEPT ![c] = processExit(c, "cli", @)]
                 /\ mainSaid' = [mainSaid EXCEPT ![c] = @ \o thenCatchSaid(c, "cli")]
         IN  IF normalizeDir(outputDir) \notin dirs
             THEN /\ mkdirs' = [mkdirs EXCEPT ![c] = Append(@, outputDir)]
                  /\ IF mkdirThrows
                     THEN exit(c, options, 1,
                               << <<"error", "ERROR: Error creating directory">> >>)
                          /\ UNCHANGED dirs
                     ELSE /\ dirs' = dirs \cup {normalizeDir(outputDir)}
                          /\ capture
             ELSE /\ capture
                  /\ UNCHANGED <<dirs, mkdirs>>

\* one run of the command line
Cli(c) ==
    /\ pc[c] = "idle"
    /\ \E help \in HelpArgs, version \in VersionArgs, output \in OutputArgs,
          name \in CustomNames, format \in FormatArgs, quality \in QualityArgs,
          now \in 0..MaxClock, mkdirThrows \in BOOLEAN :
         main(c, parseArguments(help, version, output, name, format, quality),
              now, mkdirThrows)
    /\ UNCHANGED <<platform, disk, lastExit, reads, probeVars>>

----------------------------------------------------------------------------
(* Two calls of takeScreenshot into one directory *)

ConcurrentCalls == {1, 2}

\* the directory and the formats of the two calls
SharedDirs == {"./out/"}
SharedFormats == {PNG}

TakeScreenshotShared(c) ==
    /\ pc[c] = "idle"
    /\ \E destinationDir \in SharedDirs, customName \in CustomNames,
          format \in SharedFormats, now \in 0..MaxClock :
         takeScreenshot(c, "takeScreenshot", FALSE, destinationDir, customName,
                        format, DefaultQuality, FALSE, FALSE, FALSE, now)
    /\ UNCHANGED <<platform, dirs, disk, lastExit, reads, mkdirs, exitCode, mainSaid, probeVars>>

----------------------------------------------------------------------------
(* Calls with the silent and verbose options set by the caller *)

\* the directory, the formats and the name of these calls
OptionDirs == {"./out/", Cwd}
OptionFormats == {PNG, <<"t","i","f","f">>}
OptionNames == {<<"shot">>}

TakeScreenshotWith(c) ==
    /\ pc[c] = "idle"
    /\ \E destinationDir \in OptionDirs, customName \in OptionNames,
          format \in OptionFormats, returnBase64 \in BOOLEAN,
          silent \in BOOLEAN, verbose \in BOOLEAN :
         takeScreenshot(c, "takeScreenshot", FALSE, destinationDir, customName,
                        format, DefaultQuality, returnBase64, silent, verbose, 0)
    /\ UNCHANGED <<platform, dirs, disk, lastExit, reads, mkdirs, exitCode, mainSaid, probeVars>>

CaptureScreenWith(c) ==
    /\ pc[c] = "idle"
    /\ \E outputDir \in OptionDirs, filename \in OptionNames, createDir \in BOOLEAN,
          format \in OptionFormats, returnBase64 \in BOOLEAN,
          silent \in BOOLEAN, verbose \in BOOLEAN, mkdirThrows \in BOOLEAN :
         captureScreen(c, outputDir, filename, createDir, format, DefaultQuality,
                       returnBase64, silent, verbose, 0, mkdirThrows)
    /\ UNCHANGED <<platform, disk, lastExit, reads, exitCode, mainSaid, probeVars>>

----------------------------------------------------------------------------
(* Calls whose options.format may be any value *)

\* format: 'png', 'tiff', undefined or 42, set explicitly in options
TypedFormats == {PNG, <<"t","i","f","f">>} \cup NonStrings

TakeScreenshotTyped(c) ==
    /\ pc[c] = "idle"
    /\ \E destinationDir \in DirArgs, customName \in CustomNames,
          format \in TypedFormats, returnBase64 \in BOOLEAN, now \in 0..MaxClock :
         takeScreenshot(c, "takeScreenshot", FALSE, destinationDir, customName,
                        format, DefaultQuality, returnBase64, FALSE, FALSE, now)
    /\ UNCHANGED <<platform, dirs, disk, lastExit, reads, mkdirs, exitCode, mainSaid, probeVars>>

----------------------------------------------------------------------------
(* The legacy screenshot module: its takeScreenshot, which writes png only, *)
(* run beside the current one with the same arguments on the same host      *)

BothCalls == {1, 2}
Current == 1
Legacy == 2

\* the directory and the format of the two calls
LegacyDirs == {"./out/"}
LegacyFormats == {PNG}

\* the platform branches of the legacy module
legacyCommands(currentPlatform, filepath) ==
    IF currentPlatform = "win32"
    THEN << [argv |-> <<"powershell", "-Command", "Save", "Png">>,
             path |-> filepath, target |-> filepath],
            [argv |-> <<"nircmd", "savescreenshot">>,
             path |-> filepath, target |-> filepath],
            [argv |-> <<"screencapture">>,
             path |-> filepath, target |-> filepath] >>
    ELSE IF currentPlatform = "darwin"
    THEN << [argv |-> <<"screencapture">>,
             path |-> filepath, target |-> filepath],
            [argv |-> <<"screencapture", "-x">>,
             path |-> filepath, target |-> filepath] >>
    ELSE << [argv |-> <<"grim">>,
             path |-> filepath, target |-> filepath],
            [argv |-> <<"gnome-screenshot", "-f">>,
             path |-> filepath, target |-> filepath],
            [argv |-> <<"spectacle", "-b", "-n", "-o">>,
             path |-> filepath, target |-> filepath],
            [argv |-> <<"wayshot", "-f">>,
             path |-> filepath, target |-> filepath],
            [argv |-> <<"flameshot", "full", "-p">>,
             path |-> [dir |-> dirname(filepath), base |-> <<>>, ext |-> <<>>],
             target |-> flameshotFile(dirname(filepath))],
            [argv |-> <<"scrot">>,
             path |-> filepath, target |-> filepath],
            [argv |-> <<"maim">>,
             path |-> filepath, target |-> filepath] >>

\* getSuggestions of the legacy module
legacyGetSuggestions(currentPlatform) ==
    IF currentPlatform = "win32"
    THEN <<"PowerShell (native to Windows)",
           "NirCmd from https://www.nirsoft.net/utils/nircmd.html",
           "npm install screenshot-desktop">>
    ELSE IF currentPlatform = "darwin"
    THEN <<"screencapture (native to macOS)",
           "Check screen recording permissions in System Preferences">>
    ELSE <<"grim (recommended for Wayland)",
           "gnome-screenshot (for GNOME environments)",
           "spectacle (for KDE Plasma)",
           "wayshot (alternative for Wayland)",
           "flameshot (GUI with extra features)",
           "scrot (for X11 systems)",
           "maim (alternative for X11)">>

\* the lines of the three platform branches of the legacy exhausted case
legacyInstallHints(currentPlatform) ==
    IF currentPlatform = "win32"
    THEN <<"For Windows:", "PowerShell already tried", "Install NirCmd", "Or use npm">>
    ELSE IF currentPlatform = "darwin"
    THEN <<"For macOS:", "screencapture is native to macOS",
           "Check screen recording permissions">>
    ELSE <<"For Linux systems, install one of these tools:", "grim", "gnome-screenshot",
           "spectacle", "wayshot", "flameshot", "scrot", "maim",
           "Install using your system package manager">>

\* the reject of the legacy tryCommand when index >= commands.length
legacyNoToolsError(r) ==
    [success |-> FALSE,
     error |-> "No screenshot tools found!",
     platform |-> r.currentPlatform,
     availableTools |-> toolNames(r.commands),
     suggestions |-> legacyGetSuggestions(r.currentPlatform)]

\* the object the legacy module resolves with
legacyResultOf(dsk, r, toolName) ==
    [success |-> TRUE,
     filename |-> r.filename,
     filepath |-> r.filepath,
     absolutePath |-> absolutePathOf(r.filepath),
     directory |-> r.destinationDir,
     size |-> statSize(dsk, r.filepath),
     tool |-> toolName,
     platform |-> r.currentPlatform,
     format |-> PNG]

\* function tryCommand(index) of the legacy module
legacyTryCommand(c, r, index, fl, said) ==
    IF index >= Len(r.commands)
    THEN /\ say(c, said \o logError(r.silent, r.verbose, <<"ERROR: No screenshot tools found!">>)
                     \o log(r.silent, r.verbose, legacyInstallHints(r.currentPlatform)))
         /\ settle(c, "reject", legacyNoToolsError(r))
         /\ inflight' = fl
         /\ UNCHANGED invoked
    ELSE /\ say(c, said)
         /\ invoked' = [invoked EXCEPT ![c] = Append(@, index)]
         /\ inflight' = fl \cup {<<c, index>>}
         /\ pc' = [pc EXCEPT ![c] = IF @ = "idle" THEN "running" ELSE @]
         /\ UNCHANGED settled

\* the body of the promise of the legacy takeScreenshot, up to the first exec;
\* options.format is spread into config and never read
legacyTakeScreenshot(c, destinationDir, customName, format, silent, verbose, now) ==
    LET filename == IF customName # <<>>
                    THEN [base |-> customName, ext |-> PNG]
                    ELSE [base |-> <<"screenshot-", now>>, ext |-> PNG]
        filepath == join(destinationDir, filename)
        r == [via |-> "legacy",
              entered |-> TRUE,
              destinationDir |-> destinationDir,
              customName |-> customName,
              now |-> now,
              format |-> format,
              silent |-> silent,
              verbose |-> verbose,
              filename |-> filename,
              filepath |-> filepath,
              currentPlatform |-> platform,
              commands |-> legacyCommands(platform, filepath)]
    IN  /\ req' = [req EXCEPT ![c] = r]
        /\ legacyTryCommand(c, r, 0, inflight,
                            log(silent, verbose, <<"Platform detected", "Taking screenshot...">>))

\* the callback of exec in the legacy module
legacyExecCallback(c, index, error, dsk) ==
    LET r == req[c]
        toolName == toolNameOf(r.commands[index + 1])
        fl == inflight \ {<<c, index>>}
        saved == log(r.silent, r.verbose, <<"SUCCESS: Screenshot captured", "File saved at: ">>)
    IN  IF error
        THEN legacyTryCommand(c, r, index + 1, fl,
                              log(r.silent, r.verbose, <<"WARNING: not available, trying next...">>)
                              \o (IF r.verbose
                                  THEN log(r.silent, r.verbose, <<"Command failed: ", "Error: ">>)
                                  ELSE <<>>))
        ELSE IF existsSync(dsk, r.filepath)
        THEN IF statThrows(dsk, r.filepath)
             THEN /\ say(c, saved)
                  /\ pc' = [pc EXCEPT ![c] = "crashed"]
                  /\ inflight' = fl
                  /\ UNCHANGED <<invoked, settled>>
             ELSE /\ say(c, saved \o log(r.silent, r.verbose, <<"Size: ">>))
                  /\ settle(c, "resolve", legacyResultOf(dsk, r, toolName))
                  /\ inflight' = fl
                  /\ UNCHANGED invoked
        ELSE legacyTryCommand(c, r, index + 1, fl,
                              log(r.silent, r.verbose, <<"ERROR: Failed to save, trying next...">>))

\* a call of the legacy takeScreenshot
LegacyTakeScreenshot(c) ==
    /\ pc[c] = "idle"
    /\ \E destinationDir \in LegacyDirs, customName \in CustomNames,
          format \in LegacyFormats, now \in 0..MaxClock :
         legacyTakeScreenshot(c, destinationDir, customName, format, FALSE, FALSE, now)
    /\ UNCHANGED <<platform, dirs, disk, lastExit, reads, mkdirs, exitCode, mainSaid, probeVars>>

\* the call of the current takeScreenshot with the arguments of legacy call l,
\* at the same instant
TakeScreenshotAs(c, l) ==
    /\ pc[c] = "idle"
    /\ pc[l] # "idle"
    /\ takeScreenshot(c, "takeScreenshot", FALSE, req[l].destinationDir, req[l].customName,
                      req[l].format, DefaultQuality, FALSE, req[l].silent, req[l].verbose,
                      req[l].now)
    /\ UNCHANGED <<platform, dirs, disk, lastExit, reads, mkdirs, exitCode, mainSaid, probeVars>>

\* the next process of call c ends once call l has seen the end of the one before
ExecCallbackBefore(c, l) ==
    /\ lastExit[l].index = lastExit[c].index
    /\ ExecCallback(c)

\* the process of legacy call l at the index call c has just passed ends in the
\* same environment: with the same exit status, and with the disk as it is
LegacyExecCallback(l, c) ==
    /\ lastExit[l].index < lastExit[c].index
    /\ <<l, lastExit[c].index>> \in inflight
    /\ legacyExecCallback(l, lastExit[c].index, lastExit[c].error, disk)
    /\ lastExit' = [lastExit EXCEPT ![l] =
                      [index |-> lastExit[c].index, error |-> lastExit[c].error, wrote |-> {}]]
    /\ UNCHANGED <<platform, dirs, disk, req, reads, mkdirs, exitCode, mainSaid, probeVars>>

----------------------------------------------------------------------------
(* Specifications *)

Next ==
    \/ \E c \in Calls : TakeScreenshot(c)
    \/ \E c \in Calls : CaptureScreen(c)
    \/ \E c \in Calls : ExecCallback(c)

\* one call of takeScreenshot or captureScreen, with its child processes
Spec == Init /\ [][Next]_vars

NextProbe ==
    \/ GetAvailableTools
    \/ ProbeCallback

\* one call of getAvailableTools, with its probes
SpecProbe == Init /\ [][NextProbe]_vars

InitCli == InitFor(Calls, {ModuleDir})

NextCli ==
    \/ \E c \in Calls : Cli(c)
    \/ \E c \in Calls : ExecCallback(c)

\* one run of the command line, with its child processes
SpecCli == InitCli /\ [][NextCli]_vars

\* the shared directory exists: takeScreenshot does not create it
InitConcurrent == InitFor(ConcurrentCalls, {"out"})

NextConcurrent ==
    \/ \E c \in ConcurrentCalls : TakeScreenshotShared(c)
    \/ \E c \in ConcurrentCalls : ExecCallback(c)

\* two calls of takeScreenshot that overlap
SpecConcurrent == InitConcurrent /\ [][NextConcurrent]_vars

NextOptions ==
    \/ \E c \in Calls : TakeScreenshotWith(c)
    \/ \E c \in Calls : CaptureScreenWith(c)
    \/ \E c \in Calls : ExecCallback(c)

\* one call of takeScreenshot or captureScreen with silent and verbose given
InitOptions == InitFor(Calls, {Cwd})

SpecOptions == InitOptions /\ [][NextOptions]_vars

NextRacing ==
    \/ \E c \in Calls : TakeScreenshot(c)
    \/ \E c \in Calls : ExecCallbackRacing(c)

\* one call of takeScreenshot on a disk that other processes change
SpecRacing == Init /\ [][NextRacing]_vars

NextTyped ==
    \/ \E c \in Calls : TakeScreenshotTyped(c)
    \/ \E c \in Calls : ExecCallback(c)

\* one call of takeScreenshot whose format option need not be a string
SpecTyped == Init /\ [][NextTyped]_vars

InitLegacy == InitFor(BothCalls, {})

NextLegacy ==
    \/ LegacyTakeScreenshot(Legacy)
    \/ TakeScreenshotAs(Current, Legacy)
    \/ ExecCallbackBefore(Current, Legacy)
    \/ LegacyExecCallback(Legacy, Current)

\* the legacy and the current takeScreenshot called with the same arguments,
\* their processes ending alike
SpecLegacy == InitLegacy /\ [][NextLegacy]_vars

----------------------------------------------------------------------------
(* Vocabulary of the properties *)

\* the spellings among FormatInputs that case-fold to a supported format,
\* each with its lower-case form
LowerCaseOf ==
    (PNG :> PNG) @@ (<<"P","N","G">> :> PNG) @@ (JPG :> JPG) @@
    (<<"J","P","G">> :> JPG) @@ (<<"J","p","e","g">> :> JPEG) @@ (JPEG :> JPEG) @@
    (BMP :> BMP) @@ (WEBP :> WEBP)

SupportedSpellings == DOMAIN LowerCaseOf
UnsupportedSpellings == FormatInputs \ SupportedSpellings

\* the calls in which the body of takeScreenshot has run
Entered(c) == pc[c] # "idle" /\ req[c].entered

\* the calls that passed the format validation
Accepted(c) == Entered(c) /\ invoked[c] # <<>>

ProcessesOf(c) == {pr \in inflight : pr[1] = c}

\* <<0, 1, ..., n-1>>
UpTo(n) == [i \in 1..n |-> i - 1]

Resolved(c) == settled[c] # <<>> /\ settled[c][1].kind = "resolve"
Rejected(c) == settled[c] # <<>> /\ settled[c][1].kind = "reject"
ValueOf(c) == settled[c][1].value

IsNoToolsError(v) ==
    /\ "availableTools" \in DOMAIN v
    /\ v.success = FALSE
    /\ v.error = "No screenshot tools found!"

\* the last process of call c that ended, ended without error
ExitedClean(c) == lastExit[c].index >= 0 /\ ~lastExit[c].error

----------------------------------------------------------------------------
(* C1: a format that does not case-fold to png, jpg, jpeg, bmp or webp     *)
(* makes takeScreenshot reject with the unsupported-format error           *)
(* (success false, one suggestion listing the five valid formats), on      *)
(* every platform, with no external process ever invoked by the call.      *)
C1_UnsupportedFormatRejects ==
    \A c \in Calls :
        (Entered(c) /\ req[c].format \in UnsupportedSpellings) =>
            /\ pc[c] = "rejected"
            /\ Len(settled[c]) = 1
            /\ Rejected(c)
            /\ ValueOf(c).success = FALSE
            /\ ValueOf(c).error[1] = "Unsupported format: "
            /\ ValueOf(c).error[2] = req[c].format
            /\ ValueOf(c).platform = platform
            /\ ValueOf(c).suggestions =
                 << <<"Use one of these formats: ", <<PNG, JPG, JPEG, BMP, WEBP>> >> >>
            /\ invoked[c] = <<>>
            /\ ProcessesOf(c) = {}

C1_Witness ==
    \E c \in Calls :
        /\ Entered(c)
        /\ req[c].format = <<"T","I","F","F">>
        /\ platform = "win32"
        /\ Rejected(c)

(* C2: when a process ends without error and the output file the executor  *)
(* expects (the destination path filepath) is not on disk, no success is   *)
(* reported: the next candidate is invoked, or, after the last candidate,  *)
(* the call rejects with the all-tools-exhausted error.                     *)
C2_MissingFileIsNotSuccess ==
    \A c \in Calls :
        (Accepted(c) /\ ExitedClean(c) /\ req[c].filepath \notin DOMAIN disk) =>
            LET i == lastExit[c].index
                n == Len(req[c].commands)
            IN  /\ ~Resolved(c)
                /\ IF i + 1 < n
                   THEN /\ settled[c] = <<>>
                        /\ invoked[c] = UpTo(i + 2)
                        /\ ProcessesOf(c) = {<<c, i + 1>>}
                   ELSE /\ Len(settled[c]) = 1
                        /\ Rejected(c)
                        /\ IsNoToolsError(ValueOf(c))
                        /\ ProcessesOf(c) = {}

C2_Witness ==
    \E c \in Calls :
        /\ Accepted(c) /\ ExitedClean(c)
        /\ req[c].filepath \notin DOMAIN disk
        /\ lastExit[c].index = 0
        /\ invoked[c] = <<0, 1>>
        /\ platform = "darwin"

(* C3: within one call, candidate k+1 is handed to exec only after the     *)
(* callback of candidate k has fired: at most one process of the call is    *)
(* in flight, it is the last one invoked, and the invoked indexes are       *)
(* 0, 1, 2, ... in order.                                                    *)
C3_OneProcessInFlight ==
    \A c \in Calls :
        /\ Cardinality(ProcessesOf(c)) <= 1
        /\ invoked[c] = UpTo(Len(invoked[c]))
        /\ \A pr \in ProcessesOf(c) :
             /\ pr[2] = Len(invoked[c]) - 1
             /\ lastExit[c].index = pr[2] - 1

C3_Witness ==
    \E c \in Calls :
        /\ Len(invoked[c]) = 3
        /\ ProcessesOf(c) = {<<c, 2>>}

(* C4: first success wins: once a candidate's process has ended without    *)
(* error and the output file is on disk, the call is resolved, once, with   *)
(* success = true and tool = that candidate's tool name; no process is     *)
(* left running and no further candidate is invoked from then on.           *)
C4_SuccessState ==
    \A c \in Calls :
        (Accepted(c) /\ ExitedClean(c) /\ req[c].filepath \in DOMAIN disk) =>
            LET i == lastExit[c].index
            IN  /\ pc[c] = "resolved"
                /\ Len(settled[c]) = 1
                /\ Resolved(c)
                /\ ValueOf(c).success = TRUE
                /\ ValueOf(c).tool = req[c].commands[i + 1].argv[1]
                /\ invoked[c] = UpTo(i + 1)
                /\ ProcessesOf(c) = {}

C4_NothingAfterSuccess ==
    \A c \in Calls :
        Resolved(c) => /\ invoked'[c] = invoked[c]
                       /\ settled'[c] = settled[c]
                       /\ ProcessesOf(c)' = {}

\* C4: first success wins, in every state and from then on
C4_FirstSuccessWins == [](C4_SuccessState) /\ [][C4_NothingAfterSuccess]_vars

C4_Witness ==
    \E c \in Calls :
        /\ Resolved(c)
        /\ lastExit[c].index = 1
        /\ ValueOf(c).tool = "gnome-screenshot"
        /\ Len(req[c].commands) = 7

(* C5: when every candidate has failed (the last one ended with an error    *)
(* or without its output file), the call rejects with 'No screenshot tools  *)
(* found!'; availableTools lists the tool name of every candidate built for *)
(* the request, in order, and every candidate was invoked exactly once.     *)
C5_AllToolsExhausted ==
    \A c \in Calls :
        LET n == Len(req[c].commands)
            lastFailed ==
                /\ lastExit[c].index = n - 1
                /\ (lastExit[c].error \/ req[c].filepath \notin DOMAIN disk)
        IN  Accepted(c) =>
              /\ lastFailed =>
                   /\ pc[c] = "rejected"
                   /\ Len(settled[c]) = 1
                   /\ IsNoToolsError(ValueOf(c))
              /\ (Rejected(c) /\ IsNoToolsError(ValueOf(c))) =>
                   /\ lastFailed
                   /\ Len(ValueOf(c).availableTools) = n
                   /\ \A k \in 1..n :
                        ValueOf(c).availableTools[k] = req[c].commands[k].argv[1]
                   /\ invoked[c] = UpTo(n)
                   /\ ProcessesOf(c) = {}

C5_Witness ==
    \E c \in Calls :
        /\ Accepted(c)
        /\ Rejected(c)
        /\ ValueOf(c).availableTools =
             <<"gnome-screenshot", "spectacle", "wayshot", "flameshot", "scrot", "maim">>
        /\ invoked[c] = <<0, 1, 2, 3, 4, 5>>

(* C6: whatever the probes answer, the object getAvailableTools resolves   *)
(* with has hasTools = true exactly when available is not empty, and total *)
(* is the platform's tool count: 3 on win32, 1 on darwin, 7 elsewhere.      *)
C6_ProbeSummary ==
    \A k \in 1..Len(probeSettled) :
        LET v == probeSettled[k]
        IN  /\ v.hasTools = (v.available # <<>>)
            /\ v.total = (IF platform = "win32" THEN 3
                          ELSE IF platform = "darwin" THEN 1 ELSE 7)
            /\ v.platform = platform

C6_Witness ==
    /\ platform = "freebsd"
    /\ Len(probeSettled) = 1
    /\ probeSettled[1].available = <<>>
    /\ probeSettled[1].total = 7

(* C7: getAvailableTools starts every probe at once, and resolves exactly  *)
(* once, when the last probe callback has fired and not before, in         *)
(* whatever order the callbacks fire.                                        *)
C7_ProbeJoin ==
    LET n == Len(probeCommands(platform))
    IN  /\ Len(probeSettled) <= 1
        /\ probePc # "idle" => checkedTools + Cardinality(probePending) = n
        /\ (probePc # "idle" /\ checkedTools = 0) =>
               probePending = {probeCommands(platform)[i] : i \in 1..n}
        /\ probePending # {} => probeSettled = <<>>
        /\ (probePc # "idle" /\ probePending = {}) => Len(probeSettled) = 1
        /\ (probePc = "resolved") = (probeSettled # <<>>)

\* resolved after the probes ended in an order that is not the issue order
C7_Witness ==
    /\ platform = "linux"
    /\ Len(probeSettled) = 1
    /\ probePending = {}
    /\ Len(probeSettled[1].available) = 3
    /\ probeSettled[1].available[1] = "maim"
    /\ probeSettled[1].available[2] = "grim"

(* C8: captureScreen with createDir: false on a directory that does not    *)
(* exist rejects with the directory-does-not-exist error (success false,   *)
(* with suggestions), invokes no external process and leaves the directory  *)
(* missing.                                                                  *)
C8_Step ==
    \A c \in Calls :
        ( /\ pc[c] = "idle" /\ pc'[c] # "idle"
          /\ req'[c].via = "captureScreen"
          /\ ~req'[c].createDir
          /\ normalizeDir(req'[c].destinationDir) \notin dirs ) =>
            /\ pc'[c] = "rejected"
            /\ Len(settled'[c]) = 1
            /\ settled'[c][1].kind = "reject"
            /\ settled'[c][1].value.success = FALSE
            /\ settled'[c][1].value.error =
                 <<"Directory does not exist: ", req'[c].destinationDir>>
            /\ Len(settled'[c][1].value.suggestions) > 0
            /\ invoked'[c] = <<>>
            /\ inflight' = inflight
            /\ mkdirs'[c] = <<>>
            /\ dirs' = dirs

\* C8: every captureScreen call with createDir false on a missing directory
\* rejects so, with no process and no directory created
C8_MissingDirectoryRejects == [][C8_Step]_vars

C8_Witness ==
    \E c \in Calls :
        /\ req[c].via = "captureScreen"
        /\ ~req[c].createDir
        /\ req[c].destinationDir = "./out/"
        /\ "out" \notin dirs
        /\ pc[c] = "rejected"
        /\ invoked[c] = <<>>

(* C9: captureScreen with createDir true on a missing directory hands the  *)
(* directory to mkdirSync before anything else; when mkdirSync returns the *)
(* directory exists by the time the first candidate runs, and for a        *)
(* supported format the cascade starts at candidate 0.  No candidate of a  *)
(* captureScreen call runs without its directory, and a success carries    *)
(* directory = the outputDir that was passed.                               *)
C9_Step ==
    \A c \in Calls :
        ( /\ pc[c] = "idle" /\ pc'[c] # "idle"
          /\ req'[c].via = "captureScreen"
          /\ req'[c].createDir
          /\ normalizeDir(req'[c].destinationDir) \notin dirs ) =>
            /\ mkdirs'[c] = <<req'[c].destinationDir>>
            /\ invoked'[c] # <<>> => normalizeDir(req'[c].destinationDir) \in dirs'
            /\ ( /\ normalizeDir(req'[c].destinationDir) \in dirs'
                 /\ req'[c].format \in SupportedSpellings ) =>
                   /\ invoked'[c] = <<0>>
                   /\ <<c, 0>> \in inflight'

C9_State ==
    \A c \in Calls :
        (pc[c] # "idle" /\ req[c].via = "captureScreen") =>
            /\ invoked[c] # <<>> => normalizeDir(req[c].destinationDir) \in dirs
            /\ Resolved(c) => ValueOf(c).directory = req[c].destinationDir

\* C9: the directory is created before any candidate runs, and a success
\* carries the outputDir that was passed
C9_DirectoryCreatedFirst == [](C9_State) /\ [][C9_Step]_vars

C9_Witness ==
    \E c \in Calls :
        /\ req[c].via = "captureScreen"
        /\ mkdirs[c] = <<"./out/">>
        /\ Resolved(c)
        /\ ValueOf(c).directory = "./out/"
        /\ ValueOf(c).filepath.dir = "out"

(* C10: the format is matched without regard to case: every case variant   *)
(* of a supported format is accepted and replaced by its lower-case form,  *)
(* which gives the file extension (jpg for jpg and jpeg), the format of    *)
(* the result and the MIME type of the data URL (image/jpeg for JPG).       *)
C10_MimeOf(lower) ==
    CASE lower = PNG  -> "image/png"
      [] lower = JPG  -> "image/jpeg"
      [] lower = JPEG -> "image/jpeg"
      [] lower = WEBP -> "image/webp"
      [] lower = BMP  -> "image/bmp"

C10_CaseInsensitiveFormat ==
    \A c \in Calls :
        (Entered(c) /\ req[c].format \in SupportedSpellings) =>
            LET lower == LowerCaseOf[req[c].format]
            IN  /\ Accepted(c)
                /\ req[c].normalizedFormat = lower
                /\ req[c].filename.ext = (IF lower = JPEG THEN JPG ELSE lower)
                /\ req[c].filepath.ext = req[c].filename.ext
                /\ Resolved(c) =>
                     /\ ValueOf(c).format = lower
                     /\ ValueOf(c).filename.ext = req[c].filename.ext
                     /\ "base64" \in DOMAIN ValueOf(c) =>
                          /\ ValueOf(c).base64[1] = "data:"
                          /\ ValueOf(c).base64[2] = C10_MimeOf(lower)

C10_Witness ==
    \E c \in Calls :
        /\ Resolved(c)
        /\ req[c].format = <<"J","P","G">>
        /\ ValueOf(c).format = JPG
        /\ ValueOf(c).filename.ext = JPG
        /\ "base64" \in DOMAIN ValueOf(c)
        /\ ValueOf(c).base64[2] = "image/jpeg"

----------------------------------------------------------------------------
(* Base64 decoding, for the round trip *)

Base64Value(ch) == (CHOOSE i \in 1..Len(Base64Alphabet) : Base64Alphabet[i] = ch) - 1

RECURSIVE fromBase64(_)
fromBase64(chars) ==
    IF Len(chars) < 4 THEN <<>>
    ELSE LET a == Base64Value(chars[1])
             b == Base64Value(chars[2])
             rest == fromBase64(SubSeq(chars, 5, Len(chars)))
         IN  IF chars[3] = "="
             THEN << a * 4 + b \div 16 >> \o rest
             ELSE IF chars[4] = "="
             THEN << a * 4 + b \div 16,
                     (b % 16) * 16 + Base64Value(chars[3]) \div 4 >> \o rest
             ELSE << a * 4 + b \div 16,
                     (b % 16) * 16 + Base64Value(chars[3]) \div 4,
                     (Base64Value(chars[3]) % 4) * 64 + Base64Value(chars[4]) >> \o rest

\* the fields of a success that every success has
PlainFields ==
    {"success", "filename", "filepath", "absolutePath", "directory", "size", "tool",
     "platform", "format"}

(* C11: round trip: in every success that carries base64Raw, decoding       *)
(* base64Raw gives exactly the bytes of the file at the result's filepath.  *)
C11_Base64RoundTrip ==
    \A c \in Calls :
        (Resolved(c) /\ "base64Raw" \in DOMAIN ValueOf(c)) =>
            /\ ValueOf(c).filepath \in DOMAIN disk
            /\ fromBase64(ValueOf(c).base64Raw) = disk[ValueOf(c).filepath]
            /\ reads[c] = <<[path |-> ValueOf(c).filepath, threw |-> FALSE]>>

\* a success whose file has four bytes: one byte over a full group, two pads
C11_Witness ==
    \E c \in Calls :
        /\ Resolved(c)
        /\ "base64Raw" \in DOMAIN ValueOf(c)
        /\ disk[ValueOf(c).filepath] = <<137, 80, 78, 71>>
        /\ Len(ValueOf(c).base64Raw) = 8
        /\ ValueOf(c).base64Raw[8] = "="

(* C12: with returnBase64 true and a file that can be read, the success    *)
(* carries base64Raw and base64 = "data:" + MIME + ";base64," + base64Raw,  *)
(* MIME being image/png, image/jpeg (jpg and jpeg), image/webp, image/bmp;  *)
(* with returnBase64 false it carries neither field.                        *)
C12_MimeOf(format) ==
    CASE format = PNG  -> "image/png"
      [] format = JPG  -> "image/jpeg"
      [] format = JPEG -> "image/jpeg"
      [] format = WEBP -> "image/webp"
      [] format = BMP  -> "image/bmp"

C12_DataUrl ==
    \A c \in Calls :
        Resolved(c) =>
            /\ (req[c].returnBase64 /\ reads[c] = <<[path |-> req[c].filepath,
                                                     threw |-> FALSE]>>) =>
                 /\ DOMAIN ValueOf(c) = PlainFields \cup {"base64", "base64Raw"}
                 /\ ValueOf(c).base64 =
                      <<"data:", C12_MimeOf(ValueOf(c).format), ";base64,",
                        ValueOf(c).base64Raw>>
            /\ ~req[c].returnBase64 =>
                 /\ DOMAIN ValueOf(c) = PlainFields
                 /\ reads[c] = <<>>

C12_Witness ==
    \E c \in Calls :
        /\ Resolved(c)
        /\ req[c].returnBase64
        /\ req[c].normalizedFormat = JPG
        /\ "base64" \in DOMAIN ValueOf(c)
        /\ ValueOf(c).base64[2] = "image/jpeg"
        /\ ValueOf(c).base64[4] = ValueOf(c).base64Raw
        /\ ValueOf(c).base64Raw # <<>>

(* C13: when reading the file back throws, the call still resolves, with    *)
(* the success it gives for returnBase64 false: the same fields and values *)
(* and no base64, base64Raw.                                                 *)
C13_EncodingFailureIsNotFatal ==
    \A c \in Calls :
        ( /\ Accepted(c) /\ req[c].returnBase64
          /\ ExitedClean(c) /\ req[c].filepath \in DOMAIN disk ) =>
            /\ Len(reads[c]) = 1
            /\ reads[c][1].threw =>
                 /\ pc[c] = "resolved"
                 /\ Len(settled[c]) = 1
                 /\ Resolved(c)
                 /\ ValueOf(c) =
                      [success |-> TRUE,
                       filename |-> req[c].filename,
                       filepath |-> req[c].filepath,
                       absolutePath |-> absolutePathOf(req[c].filepath),
                       directory |-> req[c].destinationDir,
                       size |-> Len(disk[req[c].filepath]),
                       tool |-> req[c].commands[lastExit[c].index + 1].argv[1],
                       platform |-> platform,
                       format |-> req[c].normalizedFormat]

C13_Witness ==
    \E c \in Calls :
        /\ Resolved(c)
        /\ req[c].returnBase64
        /\ reads[c] # <<>>
        /\ reads[c][1].threw
        /\ DOMAIN ValueOf(c) = PlainFields

\* the candidate whose process ended last in call c
LastCommand(c) == req[c].commands[lastExit[c].index + 1]

(* C14: after a candidate's process completes without error, success is    *)
(* decided by that candidate's own output file: when the process exited    *)
(* without error and the file the candidate writes (the .png path on macOS *)
(* for bmp and webp, the tool's own file name) exists, takeScreenshot      *)
(* resolves with a success result.                                          *)
C14_OwnOutputFileDecides ==
    \A c \in Calls :
        ( /\ Accepted(c)
          /\ ExitedClean(c)
          /\ LastCommand(c).target \in DOMAIN disk ) =>
            Resolved(c)

\* macOS, bmp: screencapture exited clean, its .png file is there, and the
\* call has gone on to the next candidate
C14_Witness ==
    \E c \in Calls :
        /\ Accepted(c)
        /\ platform = "darwin"
        /\ req[c].normalizedFormat = BMP
        /\ ExitedClean(c)
        /\ lastExit[c].index = 0
        /\ LastCommand(c).target # req[c].filepath
        /\ lastExit[c].wrote = {LastCommand(c).target}
        /\ ~Resolved(c)

(* C15: whenever takeScreenshot resolves with success, the file at          *)
(* result.filepath was written during this call by the candidate named in  *)
(* result.tool; a file that was there before the call is never reported as *)
(* the capture of a tool that exited without error and wrote nothing.      *)
C15_SuccessFileIsFresh ==
    \A c \in Calls :
        Resolved(c) =>
            /\ ValueOf(c).tool = toolNameOf(LastCommand(c))
            /\ ValueOf(c).filepath \in lastExit[c].wrote

\* a success on the file left by an earlier run, the tool having written nothing
C15_Witness ==
    \E c \in Calls :
        /\ Resolved(c)
        /\ lastExit[c].wrote = {}
        /\ disk[ValueOf(c).filepath] = StaleImage
        /\ ValueOf(c).size = Len(StaleImage)

(* C17: takeScreenshot rejects in two situations only: with no process     *)
(* invoked (the format was refused), or after every candidate of the list  *)
(* was invoked and ended without the output file; the rejection value is   *)
(* never a tool's own error, and a tool's error with candidates left       *)
(* never rejects: the next candidate is invoked.                           *)
C17_State ==
    \A c \in Calls :
        (Entered(c) /\ Rejected(c)) =>
            \/ /\ invoked[c] = <<>>
               /\ lastExit[c] = NoExit
               /\ ValueOf(c) = unsupportedFormatError(req[c].format)
               /\ toLowerCase(req[c].format) \notin {PNG, JPG, JPEG, BMP, WEBP}
            \/ /\ invoked[c] = UpTo(Len(req[c].commands))
               /\ ProcessesOf(c) = {}
               /\ lastExit[c].index = Len(req[c].commands) - 1
               /\ lastExit[c].error \/ req[c].filepath \notin DOMAIN disk
               /\ IsNoToolsError(ValueOf(c))

C17_Step ==
    \A c \in Calls :
        ( /\ lastExit'[c] # lastExit[c]
          /\ lastExit'[c].error
          /\ lastExit'[c].index + 1 < Len(req[c].commands) ) =>
            /\ settled'[c] = <<>>
            /\ invoked'[c] = Append(invoked[c], lastExit'[c].index + 1)
            /\ <<c, lastExit'[c].index + 1>> \in inflight'

C17_RejectsOnlyWhenExhausted == []C17_State /\ [][C17_Step]_vars

\* a rejection after the last candidate, whose own process failed
C17_Witness ==
    \E c \in Calls :
        /\ Accepted(c)
        /\ Rejected(c)
        /\ lastExit[c].error
        /\ invoked[c] = UpTo(Len(req[c].commands))
        /\ Len(invoked[c]) >= 2

\* the path the process <<call, index>> writes
TargetOf(pr) == req[pr[1]].commands[pr[2] + 1].target

(* C16: at any time at most one capture process that writes a given        *)
(* destination path is in flight, also when two takeScreenshot calls with  *)
(* the same directory and the same customName (or the same millisecond     *)
(* default name) overlap.                                                   *)
C16_OneWriterPerPath ==
    \A p \in inflight, q \in inflight :
        TargetOf(p) = TargetOf(q) => p = q

(* C16, as the code has it: each call has at most one process in flight,   *)
(* so a path has at most one writer per call that names it; two calls that *)
(* name the same path are not kept apart.                                   *)
C16_OneWriterPerPathPerCall ==
    /\ \A p \in inflight, q \in inflight :
           (TargetOf(p) = TargetOf(q) /\ p[1] = q[1]) => p = q
    /\ \A c \in ConcurrentCalls : Cardinality(ProcessesOf(c)) <= 1
    /\ \A p \in inflight :
           Cardinality({q \in inflight : TargetOf(q) = TargetOf(p)})
               <= Cardinality(ConcurrentCalls)

\* both calls have a process in flight on the same path
C16_Witness ==
    \E p \in inflight, q \in inflight :
        /\ p[1] # q[1]
        /\ TargetOf(p) = TargetOf(q)
        /\ req[p[1]].filename = req[q[1]].filename

\* the options of the command line run c
OptionsOf(c) == req[c].options
IsCli(c) == req[c].via = "cli"
HelpOrVersion(c) ==
    "options" \in DOMAIN req[c] /\ (OptionsOf(c).help \/ OptionsOf(c).version)
\* mkdirSync was called and threw: no promise was made
CliMkdirFailed(c) ==
    "options" \in DOMAIN req[c] /\ ~HelpOrVersion(c) /\ mkdirs[c] # <<>>

(* C18: the command line exits with 0 when --help or --version is given or *)
(* when the capture succeeds, with 1 when creating the output directory    *)
(* fails or takeScreenshot rejects (unsupported format, tools exhausted);  *)
(* these paths give no other exit code.                                     *)
C18_ExitCodes ==
    \A c \in Calls :
        IsCli(c) =>
            /\ exitCode[c] \in {-1, 0, 1}
            /\ exitCode[c] = 0 <=> (HelpOrVersion(c) \/ Resolved(c))
            /\ exitCode[c] = 1 <=> (CliMkdirFailed(c) \/ Rejected(c))
            /\ exitCode[c] = -1 <=> pc[c] = "running"
            /\ Rejected(c) =>
                 \/ IsNoToolsError(ValueOf(c))
                 \/ ValueOf(c) = unsupportedFormatError(req[c].format)

\* an exit with 1 after the last tool
C18_Witness ==
    \E c \in Calls :
        /\ IsCli(c)
        /\ exitCode[c] = 1
        /\ Rejected(c)
        /\ IsNoToolsError(ValueOf(c))
        /\ lastExit[c].index = Len(req[c].commands) - 1

(* C19: when creating the destination directory fails nothing is invoked;  *)
(* captureScreen then rejects with a structured error object               *)
(* (success = false, platform, suggestions), without a process exit.       *)
C19_MkdirFailureIsStructured ==
    \A c \in Calls :
        ( /\ req[c].via = "captureScreen"
          /\ ~req[c].entered
          /\ mkdirs[c] # <<>> ) =>
            /\ invoked[c] = <<>>
            /\ exitCode[c] = -1
            /\ Rejected(c)
            /\ {"success", "platform", "suggestions"} \subseteq DOMAIN ValueOf(c)
            /\ ValueOf(c).success = FALSE
            /\ ValueOf(c).platform = platform

\* captureScreen after mkdirSync threw
C19_Witness ==
    \E c \in Calls :
        /\ req[c].via = "captureScreen"
        /\ ~req[c].entered
        /\ mkdirs[c] # <<>>
        /\ Rejected(c)
        /\ invoked[c] = <<>>
        /\ ValueOf(c) = mkdirError(req[c].destinationDir)

\* a quality as it would stand in a command line
QualityWord(q) ==
    CASE q = 85  -> "85"
      [] q = 100 -> "100"
      [] OTHER   -> "?"

WordsOf(command) == {command.argv[j] : j \in 1..Len(command.argv)}

(* C20: the quality option reaches the tool in the lossy formats: for jpg  *)
(* or webp the quality value is part of a candidate's invocation, so two   *)
(* requests that differ only in quality have different candidates; for png *)
(* and bmp it is part of none.                                              *)
C20_QualityReachesTheTool ==
    \A c \in Calls :
        Accepted(c) =>
            IF req[c].normalizedFormat \in {JPG, WEBP}
            THEN \E i \in 1..Len(req[c].commands) :
                     QualityWord(req[c].quality) \in WordsOf(req[c].commands[i])
            ELSE \A i \in 1..Len(req[c].commands) :
                     QualityWord(req[c].quality) \notin WordsOf(req[c].commands[i])

\* a jpg capture asked with quality 85, first candidate invoked
C20_Witness ==
    \E c \in Calls :
        /\ Accepted(c)
        /\ IsCli(c)
        /\ req[c].normalizedFormat = JPG
        /\ req[c].quality = 85
        /\ req[c].commands = buildCommands(platform, JPG, req[c].filepath)

\* the calls whose format was accepted, so that the candidates were built
Built(c) == Entered(c) /\ "commands" \in DOMAIN req[c]
OnLinuxBranch == platform \notin {"win32", "darwin"}
GrimFormat(format) == format \in {PNG, JPG, JPEG, WEBP}

(* C23: on Linux and the other Unix platforms the candidates are: grim     *)
(* first if and only if the format is png, jpg, jpeg or webp, followed by  *)
(* exactly five further tools, appended whatever the format.                *)
C23_GrimThenFiveTools ==
    \A c \in Calls :
        (Built(c) /\ OnLinuxBranch) =>
            LET names == toolNames(req[c].commands)
                grim == GrimFormat(req[c].normalizedFormat)
            IN  /\ (names[1] = "grim") <=> grim
                /\ Len(names) = (IF grim THEN 1 ELSE 0) + 5

(* C23, as the code has it: grim first if and only if the format is png,   *)
(* jpg, jpeg or webp, followed by six further tools in a fixed order:      *)
(* gnome-screenshot, spectacle, wayshot, flameshot, scrot, maim.            *)
C23_GrimThenSixTools ==
    \A c \in Calls :
        (Built(c) /\ OnLinuxBranch) =>
            toolNames(req[c].commands) =
                (IF GrimFormat(req[c].normalizedFormat) THEN <<"grim">> ELSE <<>>)
                \o <<"gnome-screenshot", "spectacle", "wayshot", "flameshot",
                     "scrot", "maim">>

\* bmp on a platform that is neither win32, darwin nor linux: no grim, six tools
C23_Witness ==
    \E c \in Calls :
        /\ Built(c)
        /\ platform = "freebsd"
        /\ req[c].normalizedFormat = BMP
        /\ Len(req[c].commands) = 6
        /\ toolNameOf(req[c].commands[1]) = "gnome-screenshot"

(* C24: on every platform (win32, darwin, and any other value, which takes *)
(* the Linux branch) and for every supported format the candidate list is  *)
(* not empty; on win32 it is powershell, nircmd, screencapture in that     *)
(* order, whatever the format.                                              *)
C24_CandidatesNeverEmpty ==
    \A c \in Calls :
        Built(c) =>
            /\ req[c].commands # <<>>
            /\ invoked[c] # <<>>
            /\ \A p \in Platforms, i \in 1..Len(validFormats) :
                   Len(buildCommands(p, validFormats[i], req[c].filepath)) >= 2
            /\ platform = "win32" =>
                   toolNames(req[c].commands) = <<"powershell", "nircmd", "screencapture">>

\* win32 with a format its native encoder does not have
C24_Witness ==
    \E c \in Calls :
        /\ Built(c)
        /\ platform = "win32"
        /\ req[c].normalizedFormat = WEBP
        /\ Len(req[c].commands) = 3

\* candidate i of call c ended in this step
Ends(c, i) == <<c, i>> \in inflight /\ <<c, i>> \notin inflight'
\* ... and failed: an execution error, or no output file
Fails(c) == lastExit'[c].error \/ req[c].filepath \notin DOMAIN disk'

(* C25: candidates are invoked in list order starting at index 0, each at  *)
(* most once, none skipped: candidate k is invoked if and only if          *)
(* candidates 0..k-1 were invoked and each failed, by an execution error   *)
(* or by a missing output file.                                             *)
C25_State ==
    \A c \in Calls :
        /\ invoked[c] = UpTo(Len(invoked[c]))
        /\ Built(c) => Len(invoked[c]) <= Len(req[c].commands)
        /\ \A i \in 1..Len(invoked[c]) : i - 1 <= lastExit[c].index + 1

C25_Step ==
    \A c \in Calls :
        /\ invoked'[c] # invoked[c] =>
             \/ /\ pc[c] = "idle"
                /\ invoked[c] = <<>>
                /\ invoked'[c] = <<0>>
             \/ LET k == Len(invoked[c])
                IN  /\ Ends(c, k - 1)
                    /\ lastExit'[c].index = k - 1
                    /\ Fails(c)
                    /\ invoked'[c] = Append(invoked[c], k)
        /\ \A pr \in ProcessesOf(c) :
             Ends(c, pr[2]) =>
                 IF Fails(c) /\ pr[2] + 1 < Len(req[c].commands)
                 THEN invoked'[c] = Append(invoked[c], pr[2] + 1)
                 ELSE invoked'[c] = invoked[c]

C25_InvokedInOrder == []C25_State /\ [][C25_Step]_vars

\* the fifth candidate invoked after a clean exit that left no file
C25_Witness ==
    \E c \in Calls :
        /\ Built(c)
        /\ invoked[c] = <<0, 1, 2, 3, 4>>
        /\ ExitedClean(c)
        /\ lastExit[c].index = 3
        /\ req[c].filepath \notin DOMAIN disk

(* C27: there is no timeout and no cancellation: as long as the process of *)
(* an invoked candidate has not completed, the call is not settled and no  *)
(* later candidate is invoked; only the end of a process of the call moves *)
(* the call on.                                                              *)
C27_State ==
    \A c \in Calls :
        \A pr \in ProcessesOf(c) :
            /\ settled[c] = <<>>
            /\ pc[c] = "running"
            /\ invoked[c][Len(invoked[c])] = pr[2]

C27_Step ==
    \A c \in Calls :
        (pc[c] = "running" /\ (settled'[c] # settled[c] \/ invoked'[c] # invoked[c])) =>
            \E pr \in ProcessesOf(c) : pr \notin inflight'

C27_NoTimeout == []C27_State /\ [][C27_Step]_vars

\* the second candidate of a linux call in flight, nothing settled
C27_Witness ==
    \E c \in Calls :
        /\ ProcessesOf(c) = {<<c, 1>>}
        /\ settled[c] = <<>>
        /\ invoked[c] = <<0, 1>>
        /\ Len(req[c].commands) = 7

(* C28: the format downgrade is not surfaced: on win32 with format webp    *)
(* the first candidate encodes with the Png encoder into a path ending in  *)
(* .webp, and a success reports format webp and a filename ending in       *)
(* .webp; result.format is always the normalized requested format.          *)
C28_DowngradeNotSurfaced ==
    \A c \in Calls :
        /\ (Built(c) /\ platform = "win32" /\ req[c].normalizedFormat = WEBP) =>
             /\ req[c].commands[1].argv = <<"powershell", "-Command", "Save", "Png">>
             /\ req[c].commands[1].path.ext = WEBP
             /\ Resolved(c) =>
                  /\ ValueOf(c).format = WEBP
                  /\ ValueOf(c).filename.ext = WEBP
        /\ Resolved(c) =>
             /\ ValueOf(c).format = toLowerCase(req[c].format)
             /\ ValueOf(c).format = req[c].normalizedFormat

\* win32, webp: powershell wrote the file and the success says webp
C28_Witness ==
    \E c \in Calls :
        /\ Resolved(c)
        /\ platform = "win32"
        /\ req[c].format = WEBP
        /\ ValueOf(c).tool = "powershell"
        /\ lastExit[c].wrote = {req[c].filepath}
        /\ ValueOf(c).format = WEBP

(* C29: for format jpeg, in any case, the file extension is .jpg as for    *)
(* jpg, while the label jpeg is kept: result.format is jpeg and the MIME   *)
(* type is looked up for jpeg and is image/jpeg; jpg and jpeg build the    *)
(* same candidate list on every platform.                                   *)
C29_JpegIsJpgOnDisk ==
    \A c \in Calls :
        (Built(c) /\ toLowerCase(req[c].format) = JPEG) =>
            /\ req[c].filepath.ext = JPG
            /\ req[c].filename.ext = JPG
            /\ req[c].commands = buildCommands(platform, JPG, req[c].filepath)
            /\ Resolved(c) =>
                 /\ ValueOf(c).format = JPEG
                 /\ "base64" \in DOMAIN ValueOf(c) => ValueOf(c).base64[2] = "image/jpeg"

\* Jpeg, mixed case, resolved with its data URL
C29_Witness ==
    \E c \in Calls :
        /\ Resolved(c)
        /\ req[c].format = <<"J","p","e","g">>
        /\ ValueOf(c).filepath.ext = JPG
        /\ "base64" \in DOMAIN ValueOf(c)

(* C30: success is reported only for an output file whose existence and    *)
(* size were validated: a candidate that exits without error and leaves a  *)
(* zero-byte file at the destination path is not reported as a success.    *)
C30_EmptyFileIsNotSuccess ==
    \A c \in Calls :
        Resolved(c) =>
            /\ ValueOf(c).filepath \in DOMAIN disk
            /\ ValueOf(c).size > 0
            /\ disk[ValueOf(c).filepath] # <<>>

\* a success for the zero-byte file the candidate has just written
C30_Witness ==
    \E c \in Calls :
        /\ Resolved(c)
        /\ lastExit[c].wrote = {ValueOf(c).filepath}
        /\ disk[ValueOf(c).filepath] = <<>>
        /\ ValueOf(c).size = 0

(* C26: if every process that is invoked completes, the call settles,     *)
(* after at most N invocations, N the length of the candidate list, in     *)
(* every behaviour of the file system, also when the output file is gone   *)
(* between the existence check and the reading of its size.  As safety:    *)
(* a call whose invoked processes have all completed is settled.           *)
C26_SettlesWhenProcessesEnd ==
    \A c \in Calls :
        (Built(c) /\ ProcessesOf(c) = {}) =>
            /\ Len(settled[c]) = 1
            /\ pc[c] \in {"resolved", "rejected"}
            /\ Len(invoked[c]) <= Len(req[c].commands)

\* the file was there for existsSync and gone for statSync: the callback threw
C26_Witness ==
    \E c \in Calls :
        /\ Built(c)
        /\ ProcessesOf(c) = {}
        /\ ExitedClean(c)
        /\ lastExit[c].wrote = {req[c].filepath}
        /\ req[c].filepath \notin DOMAIN disk
        /\ settled[c] = <<>>
        /\ pc[c] = "crashed"

(* C22: with silent true, takeScreenshot, and captureScreen, write        *)
(* nothing to the console on any path (success, a tool's failure, all      *)
(* tools exhausted, unsupported format, base64 failure), whatever verbose. *)
C22_SilentIsSilent ==
    \A c \in Calls :
        /\ ("silent" \in DOMAIN req[c] /\ req[c].silent) => console[c] = <<>>
        /\ (req[c].via = "captureScreen" /\ ~req[c].entered) => console[c] = <<>>
        /\ \A i \in 1..Len(console[c]) :
               /\ ~req[c].silent
               /\ console[c][i][1] = "log" => req[c].verbose

\* silent and verbose: two tools failed, the third left a file that could
\* not be read back, and nothing was written to the console
C22_Witness ==
    \E c \in Calls :
        /\ Resolved(c)
        /\ req[c].silent
        /\ req[c].verbose
        /\ lastExit[c].index = 2
        /\ reads[c] # <<>>
        /\ reads[c][1].threw
        /\ console[c] = <<>>

\* where the file of a path is: an absolute directory stands for itself, a
\* relative one is taken from the current working directory
LocationOf(filepath) ==
    [segments |-> IF isAbsolute(filepath.dir)
                  THEN segments(filepath.dir)
                  ELSE <<"work">> \o segments(filepath.dir),
     base |-> filepath.base, ext |-> filepath.ext]

(* C21: in every success, absolutePath is an absolute path of the same     *)
(* file as filepath, when destinationDir is relative and when it is        *)
(* absolute already (as captureScreen's default outputDir, the current     *)
(* working directory).                                                       *)
C21_AbsolutePathIsTheFile ==
    \A c \in Calls :
        Resolved(c) =>
            ValueOf(c).absolutePath = LocationOf(ValueOf(c).filepath)

\* a success of captureScreen into the current working directory
C21_Witness ==
    \E c \in Calls :
        /\ Resolved(c)
        /\ req[c].via = "captureScreen"
        /\ req[c].destinationDir = Cwd
        /\ ValueOf(c).absolutePath.segments = <<"work", "work">>
        /\ ValueOf(c).filepath \in lastExit[c].wrote


(* C32: each takeScreenshot call settles at most once: its promise is       *)
(* resolved or rejected by at most one resolve/reject, never by both and    *)
(* never twice, and after it has settled the call hands nothing to exec     *)
(* and has no process left whose callback could still act.                   *)
C32_State ==
    \A c \in Calls :
        /\ Len(settled[c]) <= 1
        /\ ~(Resolved(c) /\ \E i \in 1..Len(settled[c]) : settled[c][i].kind = "reject")
        /\ settled[c] # <<>> => /\ ProcessesOf(c) = {}
                                /\ pc[c] \in {"resolved", "rejected"}

C32_Step ==
    \A c \in Calls :
        settled[c] # <<>> => /\ settled'[c] = settled[c]
                             /\ invoked'[c] = invoked[c]
                             /\ ProcessesOf(c)' = {}

\* C32: at most one settlement, and no process after it
C32_SettlesAtMostOnce == [](C32_State) /\ [][C32_Step]_vars

C32_Witness ==
    \E c \in Calls :
        /\ Rejected(c)
        /\ IsNoToolsError(ValueOf(c))
        /\ invoked[c] = <<0, 1, 2>>
        /\ lastExit[c].index = 2
        /\ platform = "win32"

\* the call was rejected because every candidate failed
Exhausted(c) == Rejected(c) /\ IsNoToolsError(ValueOf(c))

\* total of the value getAvailableTools resolves with on this platform: it is
\* commands.length, whatever the probes find
ProbeTotal == probeResult(platform, probeCommands(platform), <<>>).total

(* C33: on each platform the tools probed by getAvailableTools and its     *)
(* total agree with the candidates of takeScreenshot: for every supported  *)
(* format, the attempted-tool list of an all-tools-exhausted rejection is   *)
(* as long as total and names the same tools.                                *)
C33_ProbeAgreesWithCandidates ==
    \A c \in Calls :
        Exhausted(c) =>
            /\ Len(ValueOf(c).availableTools) = ProbeTotal
            /\ elements(ValueOf(c).availableTools) = elements(probeCommands(platform))

(* C33, as the code has it: every attempted tool is one of the probed      *)
(* tools; the attempted list is the probe list, and its length total, on   *)
(* win32 for every format and on the Linux branch for png, jpg, jpeg and   *)
(* webp; on darwin takeScreenshot attempts screencapture twice while total *)
(* is 1; on the Linux branch for bmp grim is probed but not attempted, six *)
(* candidates against a total of 7.                                          *)
C33_ProbeCoversCandidates ==
    \A c \in Calls :
        Exhausted(c) =>
            LET attempted == ValueOf(c).availableTools
                probed == probeCommands(platform)
            IN  /\ elements(attempted) \subseteq elements(probed)
                /\ (attempted = probed) <=>
                       \/ platform = "win32"
                       \/ OnLinuxBranch /\ GrimFormat(req[c].normalizedFormat)
                /\ Len(attempted) = ProbeTotal <=> attempted = probed
                /\ platform = "darwin" =>
                       /\ attempted = <<"screencapture", "screencapture">>
                       /\ ProbeTotal = 1
                /\ (OnLinuxBranch /\ ~GrimFormat(req[c].normalizedFormat)) =>
                       /\ elements(probed) \ elements(attempted) = {"grim"}
                       /\ Len(attempted) = ProbeTotal - 1

\* bmp exhausted on linux: six attempted, seven probed
C33_Witness ==
    \E c \in Calls :
        /\ Exhausted(c)
        /\ platform = "linux"
        /\ req[c].normalizedFormat = BMP
        /\ Len(ValueOf(c).availableTools) = 6
        /\ ProbeTotal = 7

(* C31: run with --help or -h, or with --version or -v, the command line   *)
(* prints and exits with code 0; it does not create the output directory   *)
(* and invokes no external process, whatever -o=, -n=, -f= and -q= say;    *)
(* with both the help and the version asked for, the help is what is shown. *)
C31_State ==
    /\ \A h \in HelpArgs, v \in VersionArgs :
         LET options == parseArguments(h, v, "./out/", Null, <<"J","P","G">>, 85)
         IN  /\ options.help = (h # <<>>)
             /\ options.version = (v # <<>>)
    /\ \A c \in Calls :
         (IsCli(c) /\ HelpOrVersion(c)) =>
             /\ pc[c] = "exited"
             /\ exitCode[c] = 0
             /\ mkdirs[c] = <<>>
             /\ invoked[c] = <<>>
             /\ ProcessesOf(c) = {}
             /\ settled[c] = <<>>
             /\ mainSaid[c] = IF OptionsOf(c).help THEN showHelp ELSE showVersion
             /\ mainSaid[c] # <<>>

C31_Step ==
    \A c \in Calls :
        (IsCli(c)' /\ HelpOrVersion(c)') =>
            /\ dirs' = dirs
            /\ disk' = disk
            /\ inflight' = inflight
            /\ mkdirs'[c] = mkdirs[c]

\* C31: help and version exit with 0 and touch nothing
C31_HelpAndVersionOnlyPrint == [](C31_State) /\ [][C31_Step]_vars

\* both asked for, with an output directory that does not exist and a format
\* that is not supported
C31_Witness ==
    \E c \in Calls :
        /\ IsCli(c) /\ HelpOrVersion(c)
        /\ OptionsOf(c).help /\ OptionsOf(c).version
        /\ OptionsOf(c).output = "./out/"
        /\ "out" \notin dirs
        /\ OptionsOf(c).format = <<"t","i","f","f">>
        /\ exitCode[c] = 0
        /\ mainSaid[c] = showHelp

\* the probes of getAvailableTools whose callback has fired
ProbesEnded == IF probePc = "idle" THEN {} ELSE elements(probeCommands(platform)) \ probePending

(* C35: getAvailableTools never rejects; the available list of the value it *)
(* resolves with holds exactly the tools of the platform's probe list whose *)
(* which-probe ended without error, each once and no other tool, whatever   *)
(* the order in which the probe callbacks fire; the list is in the order in *)
(* which the probes ended.                                                   *)
C35_State ==
    /\ probePc \in {"idle", "probing", "resolved"}
    /\ elements(availableTools) = ProbesEnded \ probeFailed
    /\ Len(availableTools) = Cardinality(elements(availableTools))
    /\ \A k \in 1..Len(probeSettled) :
         LET available == probeSettled[k].available
         IN  /\ probePending = {}
             /\ available = availableTools
             /\ elements(available) = elements(probeCommands(platform)) \ probeFailed
             /\ elements(available) \subseteq elements(probeCommands(platform))
             /\ Len(available) = Cardinality(elements(available))

C35_Step ==
    \A tool \in probePending \ probePending' :
        /\ probePending' = probePending \ {tool}
        /\ IF tool \in probeFailed'
           THEN availableTools' = availableTools
           ELSE availableTools' = Append(availableTools, tool)
        /\ probeSettled' # probeSettled =>
               /\ probePending' = {}
               /\ probeSettled' = Append(probeSettled, probeSettled'[Len(probeSettled')])

\* C35: available is the tools found, once each, in the order the probes ended
C35_AvailableIsWhatWasFound == [](C35_State) /\ [][C35_Step]_vars

\* win32: nircmd answers last and first of those found is screencapture
C35_Witness ==
    /\ platform = "win32"
    /\ Len(probeSettled) = 1
    /\ probeFailed = {"powershell"}
    /\ probeSettled[1].available = <<"screencapture", "nircmd">>

\* an error object as the library documents it; the timestamp, the time of the
\* reject, is not kept by the model
IsStructuredError(v) ==
    /\ {"success", "error", "platform", "suggestions"} \subseteq DOMAIN v
    /\ v.success = FALSE

(* C34: every rejection of takeScreenshot, whatever the options, a format  *)
(* that is not a string (undefined or a number passed explicitly) included, *)
(* is a structured error object with success false, error, platform,       *)
(* timestamp and suggestions, never a raw runtime exception.                *)
C34_RejectionsAreStructured ==
    \A c \in Calls :
        (Entered(c) /\ Rejected(c)) =>
            /\ IsStructuredError(ValueOf(c))
            /\ "name" \notin DOMAIN ValueOf(c)

\* takeScreenshot(dir, name, {format: undefined}) rejected with the TypeError
C34_Witness ==
    \E c \in Calls :
        /\ Entered(c) /\ Rejected(c)
        /\ req[c].format = Undefined
        /\ ValueOf(c).name = "TypeError"
        /\ invoked[c] = <<>>

\* the tool names call c has handed to exec, in order
NamesInvoked(c) ==
    [i \in 1..Len(invoked[c]) |-> toolNameOf(req[c].commands[invoked[c][i] + 1])]

\* what a caller sees of the outcome of call c
OutcomeOf(c) ==
    IF pc[c] = "crashed" THEN [kind |-> "exception"]
    ELSE IF settled[c] = <<>> THEN [kind |-> "pending"]
    ELSE IF Resolved(c)
    THEN [kind |-> "resolve", tool |-> ValueOf(c).tool, filename |-> ValueOf(c).filename]
    ELSE IF "availableTools" \in DOMAIN ValueOf(c)
    THEN [kind |-> "reject", attempted |-> ValueOf(c).availableTools]
    ELSE [kind |-> "reject", error |-> ValueOf(c).error]

\* both calls are made and the legacy one has seen every process end that the
\* current one has
SameEnvironmentSeen ==
    /\ Entered(Current) /\ Entered(Legacy)
    /\ lastExit[Legacy].index = lastExit[Current].index

(* C36: for format png and otherwise equal arguments the current and the   *)
(* legacy takeScreenshot are observationally equivalent: on every platform *)
(* and in every environment (each tool's exit status, and whether the       *)
(* output file exists when it ends) they hand the same sequence of tool    *)
(* names to exec and settle alike: the same success tool and filename, or  *)
(* the same attempted-tool list.                                             *)
C36_LegacyEquivalence ==
    /\ SameEnvironmentSeen =>
           /\ NamesInvoked(Current) = NamesInvoked(Legacy)
           /\ OutcomeOf(Current) = OutcomeOf(Legacy)
           /\ req[Current].filepath = req[Legacy].filepath
    /\ (Entered(Current) /\ Entered(Legacy)) =>
           /\ Len(invoked[Legacy]) <= Len(invoked[Current])
           /\ SubSeq(NamesInvoked(Current), 1, Len(invoked[Legacy])) = NamesInvoked(Legacy)
           /\ settled[Legacy] # <<>> => OutcomeOf(Current) = OutcomeOf(Legacy)

\* both resolved by the fifth tool of the Linux list, the four before it having
\* failed for both
C36_Witness ==
    /\ SameEnvironmentSeen
    /\ platform = "linux"
    /\ Resolved(Current) /\ Resolved(Legacy)
    /\ ValueOf(Legacy).tool = "flameshot"
    /\ NamesInvoked(Current) = <<"grim", "gnome-screenshot", "spectacle", "wayshot", "flameshot">>
    /\ lastExit[Legacy].index = 4
=============================================================================
